---- MODULE Spec2Model ----
(***************************************************************************)
(* Cribbage scoring engine of nextjs-cribbage (lib/cards): the card and    *)
(* deck model, the hand scorer, the discard solver and sortCards.          *)
(*                                                                         *)
(* Suits are written "S", "H", "D", "C" for the source's spade, heart,     *)
(* diamond and club glyphs.  A ScorePart keeps its label and points; the   *)
(* explanation strings (detail) are left out, they never feed a score.     *)
(***************************************************************************)
EXTENDS Integers, Sequences, FiniteSets, TLC

VARIABLES
    call,         \* the engine function the caller invokes
    hand,         \* Card[]: the hand, card list or six-card deal passed to it
    starter,      \* Card: the starter, NoCard when the call takes none
    pool,         \* Card[]: the starterPool argument, empty when there is none
    pick,         \* index into chooseN(sixCards, 4) of the keep a step works on
    deck,         \* Card[]: the contents of the module's DECK array
    calls,        \* how many calls the caller has made so far
    memo,         \* the evaluateDiscards calls made so far, each with its result
    isDealer,     \* boolean argument of evaluateDiscards
    includeCrib,  \* boolean argument of evaluateDiscards
    returned,     \* whether the call has returned
    out,          \* what it returned, NoResult before
    discardPick,         \* Card[]: the cards picked in the discard tab
    discardNote,         \* the note under the picker, "null" when there is none
    discardSuggestions,  \* DiscardSuggestion[]: what the discard tab lists
    discardLoading,      \* whether the tab shows "Calculating best discard lines..."
    testCards,           \* Card[]: the six cards of the test tab, empty before a deal
    effectDue,           \* a render changed the discard effect's dependencies
    frame,               \* what the requested animation frame closed over, NoRun when none
    timeout,             \* what the armed timeout closed over, NoRun when none
    removals,            \* how many cards the user has taken back out of discardPick
    playerCount,         \* scoreboard: 2 or 3 players
    players,             \* scoreboard: PlayerState[], each with id, score, backPegScore
    history,             \* scoreboard: HistoryEntry[]
    currentIndex,        \* scoreboard: index (from 0) of the last applied entry, -1 for none
    lastAction,          \* lastActionRef: "add", "remove" or "null"
    removedEntries,      \* removedEntriesRef: the removed entries, last removed last
    storage,             \* localStorage["cribbage-board-state"]: << >> or <<payload>>
    issued,              \* how many history entry ids have been made
    mounts,              \* how many times the scoreboard has been mounted
    trail                \* the add, undo, redo in a row under way: its name, the
                         \* board before the add and the board after it

pageVars ==
    <<discardPick, discardNote, discardSuggestions, discardLoading, testCards,
      effectDue, frame, timeout, removals>>

boardVars ==
    <<playerCount, players, history, currentIndex, lastAction, removedEntries,
      storage, issued, mounts, trail>>

uiVars == <<pageVars, boardVars>>

vars ==
    <<call, hand, starter, pool, pick, deck, calls, memo, isDealer, includeCrib,
      returned, out, uiVars>>

(***************************************************************************)
(* Card and deck model                                                     *)
(***************************************************************************)
RANKS ==
    << [label |-> "A",  value |-> 1,  order |-> 1],
       [label |-> "2",  value |-> 2,  order |-> 2],
       [label |-> "3",  value |-> 3,  order |-> 3],
       [label |-> "4",  value |-> 4,  order |-> 4],
       [label |-> "5",  value |-> 5,  order |-> 5],
       [label |-> "6",  value |-> 6,  order |-> 6],
       [label |-> "7",  value |-> 7,  order |-> 7],
       [label |-> "8",  value |-> 8,  order |-> 8],
       [label |-> "9",  value |-> 9,  order |-> 9],
       [label |-> "10", value |-> 10, order |-> 10],
       [label |-> "J",  value |-> 10, order |-> 11],
       [label |-> "Q",  value |-> 10, order |-> 12],
       [label |-> "K",  value |-> 10, order |-> 13] >>

SUITS == << "S", "H", "D", "C" >>

\* the card literal gone wrong: the order is taken for the pip value
MakeCardValueOfOrder(rank, suit) ==
    [ rank  |-> rank.label,
      value |-> rank.order,
      order |-> rank.order,
      suit  |-> suit,
      id    |-> rank.label \o suit ]

\* One card of the deck: the object literal built inside DECK's flatMap.
MakeCard(rank, suit) ==
    [ rank  |-> rank.label,
      value |-> rank.value,
      order |-> rank.order,
      suit  |-> suit,
      id    |-> rank.label \o suit ]

\* RANKS.flatMap(rank => SUITS.map(suit => card)): rank-major, suit-minor.
DECK ==
    [ i \in 1..(Len(RANKS) * Len(SUITS)) |->
        MakeCard(RANKS[((i - 1) \div Len(SUITS)) + 1],
                 SUITS[((i - 1) % Len(SUITS)) + 1]) ]

NoCard == [ rank |-> "", value |-> 0, order |-> 0, suit |-> "", id |-> "" ]

(***************************************************************************)
(* Array helpers                                                           *)
(***************************************************************************)
\* points.reduce((acc, x) => acc + x, 0) over a sequence of numbers
RECURSIVE SumSeq(_)
SumSeq(s) == IF s = << >> THEN 0 ELSE Head(s) + SumSeq(Tail(s))

\* the elements of an array, as a set
Range(s) == { s[k] : k \in DOMAIN s }

(***************************************************************************)
(* generateCombos: every non-empty sub-list, by the recursive helper.      *)
(***************************************************************************)
RECURSIVE CombosHelper(_, _, _)
RECURSIVE CombosLoop(_, _, _)
\* helper(start): push the buffer when non-empty, then extend it by each later item
CombosHelper(items, start, buffer) ==
    (IF Len(buffer) > 0 THEN << buffer >> ELSE << >>)
        \o CombosLoop(items, start, buffer)

\* generateCombos gone wrong: the loop steps by two and misses every other item
CombosLoopSkipping(items, i, buffer) ==
    IF i > Len(items)
    THEN << >>
    ELSE CombosHelper(items, i + 1, Append(buffer, items[i]))
             \o CombosLoop(items, i + 2, buffer)

\* for (i = start; i < items.length; i += 1) { push; helper(i + 1); pop }
CombosLoop(items, i, buffer) ==
    IF i > Len(items)
    THEN << >>
    ELSE CombosHelper(items, i + 1, Append(buffer, items[i]))
             \o CombosLoop(items, i + 1, buffer)

generateCombos(items) == CombosHelper(items, 1, << >>)

(***************************************************************************)
(* Hand scorer                                                             *)
(***************************************************************************)
\* combo.reduce((acc, card) => acc + card.value, 0)
RECURSIVE ComboSum(_)
ComboSum(combo) ==
    IF combo = << >> THEN 0 ELSE Head(combo).value + ComboSum(Tail(combo))

FifteenTarget == 15
MinFifteenCards == 2

\* findFifteens gone wrong: only two-card combos are taken for fifteens
FifteenHitPairsOnly(combo) == ComboSum(combo) = FifteenTarget /\ Len(combo) = 2

\* the combos findFifteens pushes a hit for, in generateCombos order
FifteenHit(combo) == ComboSum(combo) = FifteenTarget /\ Len(combo) >= MinFifteenCards

FifteenHits(cards) == SelectSeq(generateCombos(cards), FifteenHit)

findFifteens(cards) ==
    [ label |-> "Fifteens", points |-> Len(FifteenHits(cards)) * 2 ]

\* byRank: rank label -> number of cards of that rank (keys: ranks present)
ByRank(cards) ==
    [ r \in { cards[k].rank : k \in DOMAIN cards } |->
        Cardinality({ k \in DOMAIN cards : cards[k].rank = r }) ]

\* Object.entries(byRank).forEach: points += pairs * 2 for each count >= 2
RECURSIVE PairPoints(_, _)
PairPoints(byRank, ranks) ==
    IF ranks = {}
    THEN 0
    ELSE LET rank  == CHOOSE r \in ranks : TRUE
             count == byRank[rank]
             pairs == (count * (count - 1)) \div 2
         IN  (IF count >= 2 THEN pairs * 2 ELSE 0)
                 + PairPoints(byRank, ranks \ { rank })

\* findPairs gone wrong: the division by 2 forgotten, every pair counted twice
findPairsOrdered(cards) ==
    [ label |-> "Pairs", points |-> 2 * PairPoints(ByRank(cards), DOMAIN ByRank(cards)) ]

\* findPairs gone wrong: 2 points for a rank held twice or more, whatever the count
findPairsFlat(cards) ==
    [ label |-> "Pairs",
      points |-> 2 * Cardinality({ r \in DOMAIN ByRank(cards) : ByRank(cards)[r] >= 2 }) ]

findPairs(cards) ==
    [ label |-> "Pairs", points |-> PairPoints(ByRank(cards), DOMAIN ByRank(cards)) ]

\* counts: order -> number of cards of that order (keys: orders present)
OrderCounts(cards) ==
    [ o \in { cards[k].order : k \in DOMAIN cards } |->
        Cardinality({ k \in DOMAIN cards : cards[k].order = o }) ]

\* counts[i], where a missing key reads undefined (falsy)
CountAt(counts, i) == IF i \in DOMAIN counts THEN counts[i] ELSE 0

\* while (counts[j]) { product *= counts[j]; j += 1 }: the j the loop stops at
RECURSIVE RunEnd(_, _)
RunEnd(counts, j) ==
    IF CountAt(counts, j) # 0 THEN RunEnd(counts, j + 1) ELSE j

RECURSIVE RunProduct(_, _, _)
RunProduct(counts, i, j) ==
    IF i >= j THEN 1 ELSE CountAt(counts, i) * RunProduct(counts, i + 1, j)

MaxOrder == 13
MinRunLength == 3

\* the outer while (i <= 13) loop of findRuns, carrying bestLength and points
RECURSIVE RunScan(_, _, _, _)
RunScan(counts, i, bestLength, points) ==
    IF i > MaxOrder
    THEN points
    ELSE IF CountAt(counts, i) = 0
    THEN RunScan(counts, i + 1, bestLength, points)
    ELSE LET j       == RunEnd(counts, i)
             product == RunProduct(counts, i, j)
             length  == j - i
             score   == length * product
         IN  IF length >= MinRunLength /\ length > bestLength
             THEN RunScan(counts, j + 1, length, score)
             ELSE IF length >= MinRunLength /\ length = bestLength
             THEN RunScan(counts, j + 1, bestLength, points + score)
             ELSE RunScan(counts, j + 1, bestLength, points)

\* findRuns gone wrong: the cards taken to arrive sorted, a run being cards
\* that follow one another in the list
RECURSIVE StreakFrom(_, _)
StreakFrom(cards, k) ==
    IF k < Len(cards) /\ cards[k + 1].order = cards[k].order + 1
    THEN 1 + StreakFrom(cards, k + 1)
    ELSE 1

findRunsInListOrder(cards) ==
    LET best == IF cards = << >> THEN 0
                ELSE CHOOSE n \in { StreakFrom(cards, k) : k \in DOMAIN cards } :
                         \A k \in DOMAIN cards : StreakFrom(cards, k) <= n
    IN  [ label |-> "Runs", points |-> IF best >= MinRunLength THEN best ELSE 0 ]

\* findRuns gone wrong: every run of 3 or more scores, not only the longest
RECURSIVE RunScanEvery(_, _, _)
RunScanEvery(counts, i, points) ==
    IF i > MaxOrder
    THEN points
    ELSE IF CountAt(counts, i) = 0
    THEN RunScanEvery(counts, i + 1, points)
    ELSE LET j      == RunEnd(counts, i)
             length == j - i
         IN  RunScanEvery(counts, j + 1,
                 points + (IF length >= MinRunLength
                           THEN length * RunProduct(counts, i, j)
                           ELSE 0))

findRunsEveryRun(cards) ==
    [ label |-> "Runs", points |-> RunScanEvery(OrderCounts(cards), 1, 0) ]

findRuns(cards) ==
    [ label |-> "Runs", points |-> RunScan(OrderCounts(cards), 1, 0, 0) ]

FlushPoints == 4
FlushWithStarterPoints == 5

\* findFlush gone wrong: the starter is held to the hand's suit as well
findFlushAllFive(h, s) ==
    LET allSameSuit == \A k \in DOMAIN h : h[k].suit = h[1].suit
    IN  IF ~(allSameSuit /\ s.suit = h[1].suit)
        THEN [ label |-> "Flush", points |-> 0 ]
        ELSE [ label |-> "Flush", points |-> FlushWithStarterPoints ]

findFlush(h, s) ==
    LET allSameSuit == \A k \in DOMAIN h : h[k].suit = h[1].suit
        withStarter == s.suit = h[1].suit
    IN  IF ~allSameSuit
        THEN [ label |-> "Flush", points |-> 0 ]
        ELSE [ label |-> "Flush",
               points |-> IF withStarter THEN FlushWithStarterPoints ELSE FlushPoints ]

HandSize == 4

findFlushHandOnly(h) ==
    IF Len(h) # HandSize
    THEN [ label |-> "Flush", points |-> 0 ]
    ELSE IF ~(\A k \in DOMAIN h : h[k].suit = h[1].suit)
    THEN [ label |-> "Flush", points |-> 0 ]
    ELSE [ label |-> "Flush", points |-> FlushPoints ]

\* findKnobs gone wrong: the Jack is looked for among all five cards
findKnobsAnyCard(h, s) ==
    LET cards == Append(h, s)
        jack  == \E k \in DOMAIN cards : cards[k].rank = "J" /\ cards[k].suit = s.suit
    IN  [ label |-> "His Nobs", points |-> IF jack THEN 1 ELSE 0 ]

findKnobs(h, s) ==
    LET jack == \E k \in DOMAIN h : h[k].rank = "J" /\ h[k].suit = s.suit
    IN  [ label |-> "His Nobs", points |-> IF jack THEN 1 ELSE 0 ]

\* parts.reduce((acc, part) => acc + part.points, 0)
RECURSIVE PartsTotal(_)
PartsTotal(parts) ==
    IF parts = << >> THEN 0 ELSE Head(parts).points + PartsTotal(Tail(parts))

\* scoreHand gone wrong: the pairs are looked for in the hand, the starter forgotten
scoreHandPairsInHand(h, s) ==
    LET cards == Append(h, s)
        parts == << findFifteens(cards),
                    findPairs(h),
                    findRuns(cards),
                    findFlush(h, s),
                    findKnobs(h, s) >>
    IN  [ total |-> PartsTotal(parts), parts |-> parts ]

scoreHand(h, s) ==
    LET cards == Append(h, s)
        parts == << findFifteens(cards),
                    findPairs(cards),
                    findRuns(cards),
                    findFlush(h, s),
                    findKnobs(h, s) >>
    IN  [ total |-> PartsTotal(parts), parts |-> parts ]

\* scoreHandWithoutStarter gone wrong: findFlush reused, the first card as starter
scoreHandWithoutStarterFlush5(h) ==
    LET parts == << findFifteens(h), findPairs(h), findRuns(h), findFlush(h, h[1]) >>
    IN  [ total |-> PartsTotal(parts), parts |-> parts ]

scoreHandWithoutStarter(h) ==
    LET parts == << findFifteens(h), findPairs(h), findRuns(h), findFlushHandOnly(h) >>
    IN  [ total |-> PartsTotal(parts), parts |-> parts ]

(***************************************************************************)
(* Discard solver                                                          *)
(***************************************************************************)
\* chooseN(items, size): helper(start, depth) pushes the buffer at depth = size
RECURSIVE ChooseHelper(_, _, _, _, _)
RECURSIVE ChooseLoop(_, _, _, _, _)
\* chooseN gone wrong: helper(i, depth + 1), so a card can be taken again
ChooseLoopRepeat(items, size, i, depth, buffer) ==
    IF i > Len(items)
    THEN << >>
    ELSE ChooseHelper(items, size, i, depth + 1, Append(buffer, items[i]))
             \o ChooseLoop(items, size, i + 1, depth, buffer)

ChooseHelper(items, size, start, depth, buffer) ==
    IF depth = size
    THEN << buffer >>
    ELSE ChooseLoop(items, size, start, depth, buffer)

\* for (i = start; i < items.length; i += 1) { push; helper(i + 1, depth + 1); pop }
ChooseLoop(items, size, i, depth, buffer) ==
    IF i > Len(items)
    THEN << >>
    ELSE ChooseHelper(items, size, i + 1, depth + 1, Append(buffer, items[i]))
             \o ChooseLoop(items, size, i + 1, depth, buffer)

chooseN(items, size) == ChooseHelper(items, size, 1, 0, << >>)

\* A quotient total / count of two integers (a JavaScript number), kept as the
\* exact fraction num / den with den > 0.
Frac(n, d) == [ num |-> n, den |-> d ]
FracAdd(x, y) == Frac(x.num * y.den + y.num * x.den, x.den * y.den)
\* the non-dealer's subtraction gone wrong: the crib is added
FracSubAdding(x, y) == [ num |-> x.num * y.den + y.num * x.den, den |-> x.den * y.den ]

FracSub(x, y) == Frac(x.num * y.den - y.num * x.den, x.den * y.den)
FracLess(x, y) == x.num * y.den < y.num * x.den

BestCount == 3

\* Array.prototype.sort is stable: an entry goes after every entry the comparator
\* does not put behind it.  (a, b) => b.score - a.score
RECURSIVE InsertByScore(_, _)
\* the sort gone wrong: a starter moves ahead of those with the same score
InsertByScoreUnstable(sorted, entry) ==
    IF sorted = << >>
    THEN << entry >>
    ELSE IF Head(sorted).score <= entry.score
    THEN << entry >> \o sorted
    ELSE << Head(sorted) >> \o InsertByScore(Tail(sorted), entry)

InsertByScore(sorted, entry) ==
    IF sorted = << >>
    THEN << entry >>
    ELSE IF Head(sorted).score < entry.score
    THEN << entry >> \o sorted
    ELSE << Head(sorted) >> \o InsertByScore(Tail(sorted), entry)

RECURSIVE SortByScore(_, _)
SortByScore(sorted, rest) ==
    IF rest = << >>
    THEN sorted
    ELSE SortByScore(InsertByScore(sorted, Head(rest)), Tail(rest))

\* slice(0, n)
Slice(s, n) == SubSeq(s, 1, IF Len(s) < n THEN Len(s) ELSE n)

averageHandScores(h, starterPool) ==
    IF Len(starterPool) = 0
    THEN [ average |-> Frac(0, 1), best |-> << >> ]
    ELSE LET scores == [ k \in DOMAIN starterPool |->
                           [ card  |-> starterPool[k],
                             score |-> scoreHand(h, starterPool[k]).total ] ]
             total  == SumSeq([ k \in DOMAIN scores |-> scores[k].score ])
             best   == Slice(SortByScore(<< >>, scores), BestCount)
         IN  [ average |-> Frac(total, Len(scores)), best |-> best ]

\* the filter gone wrong: the dealer's opponent pairs are filtered as well
SkippedPairBothRoles(first, second, dealer) ==
    first.rank = "5" \/ second.rank = "5" \/ first.rank = second.rank

\* the pair the non-dealer is taken never to throw: a 5, or two of one rank
SkippedPair(first, second, dealer) ==
    ~dealer /\ (first.rank = "5" \/ second.rank = "5" \/ first.rank = second.rank)

\* the innermost loop of expectedCribValue for the pair (i, j): cribScore for
\* every starter k other than i and j, 0 where the loop skips
CribScores(ourDiscards, starterPool, i, j) ==
    [ k \in DOMAIN starterPool |->
        IF k = i \/ k = j
        THEN 0
        ELSE scoreHand(ourDiscards \o << starterPool[i], starterPool[j] >>,
                       starterPool[k]).total ]

\* what the loop over j = i + 1 .. adds to total and to count for one i
CribRow(ourDiscards, starterPool, dealer, i) ==
    LET seconds == { j \in DOMAIN starterPool :
                       j > i /\ ~SkippedPair(starterPool[i], starterPool[j], dealer) }
    IN  [ total |-> SumSeq([ j \in DOMAIN starterPool |->
                               IF j \in seconds
                               THEN SumSeq(CribScores(ourDiscards, starterPool, i, j))
                               ELSE 0 ]),
          count |-> SumSeq([ j \in DOMAIN starterPool |->
                               IF j \in seconds
                               THEN Cardinality(DOMAIN starterPool \ { i, j })
                               ELSE 0 ]) ]

\* expectedCribValue gone wrong: total / count without the count test
expectedCribValueUnguarded(ourDiscards, starterPool, dealer) ==
    LET rows  == [ i \in DOMAIN starterPool |->
                     CribRow(ourDiscards, starterPool, dealer, i) ]
    IN  Frac(SumSeq([ i \in DOMAIN rows |-> rows[i].total ]),
             SumSeq([ i \in DOMAIN rows |-> rows[i].count ]))

expectedCribValue(ourDiscards, starterPool, dealer) ==
    IF Len(starterPool) = 0
    THEN Frac(0, 1)
    ELSE LET rows  == [ i \in DOMAIN starterPool |->
                          CribRow(ourDiscards, starterPool, dealer, i) ]
             total == SumSeq([ i \in DOMAIN rows |-> rows[i].total ])
             count == SumSeq([ i \in DOMAIN rows |-> rows[i].count ])
         IN  IF count # 0 THEN Frac(total, count) ELSE Frac(0, 1)

DealSize == 6

\* the pool gone wrong: the dealt cards are not filtered out of the deck
StarterPoolWholeDeck(sixCards) == DECK

\* DECK.filter(card => !sixCards.some(picked => picked.id === card.id))
StarterPool(sixCards) ==
    SelectSeq(deck, LAMBDA card : ~(\E k \in DOMAIN sixCards : sixCards[k].id = card.id))

\* the DiscardSuggestion that keepCombos.map builds for one keep
Suggestion(sixCards, keep, dealer, crib) ==
    LET starterPool == StarterPool(sixCards)
        discards    == SelectSeq(sixCards,
                           LAMBDA card : ~(\E k \in DOMAIN keep : keep[k].id = card.id))
        hs          == averageHandScores(keep, starterPool)
        handAverage == hs.average
        cribAverage == IF crib
                       THEN expectedCribValue(discards, starterPool, dealer)
                       ELSE Frac(0, 1)
        expectedValue == IF crib
                         THEN IF dealer
                              THEN FracAdd(handAverage, cribAverage)
                              ELSE FracSub(handAverage, cribAverage)
                         ELSE handAverage
    IN  [ keep          |-> keep,
          discards      |-> discards,
          handAverage   |-> handAverage,
          cribAverage   |-> cribAverage,
          expectedValue |-> expectedValue,
          bestStarters  |-> hs.best ]

\* results.sort((a, b) => b.expectedValue - a.expectedValue), stable
RECURSIVE InsertByExpectedValue(_, _)
\* the sort gone wrong: an entry moves ahead of its equals, so ties are reversed
InsertByExpectedValueUnstable(sorted, entry) ==
    IF sorted = << >>
    THEN << entry >>
    ELSE IF ~FracLess(entry.expectedValue, Head(sorted).expectedValue)
    THEN << entry >> \o sorted
    ELSE << Head(sorted) >> \o InsertByExpectedValue(Tail(sorted), entry)

InsertByExpectedValue(sorted, entry) ==
    IF sorted = << >>
    THEN << entry >>
    ELSE IF FracLess(Head(sorted).expectedValue, entry.expectedValue)
    THEN << entry >> \o sorted
    ELSE << Head(sorted) >> \o InsertByExpectedValue(Tail(sorted), entry)

RECURSIVE SortByExpectedValue(_, _)
SortByExpectedValue(sorted, rest) ==
    IF rest = << >>
    THEN sorted
    ELSE SortByExpectedValue(InsertByExpectedValue(sorted, Head(rest)), Tail(rest))

\* everything evaluateDiscards does once the six-card guard has passed
RankedSuggestions(sixCards, dealer, crib) ==
    LET keepCombos == chooseN(sixCards, HandSize)
        results    == [ n \in DOMAIN keepCombos |->
                          Suggestion(sixCards, keepCombos[n], dealer, crib) ]
    IN  Slice(SortByExpectedValue(<< >>, results), BestCount)

\* evaluateDiscards gone wrong: the six-card guard left out
evaluateDiscardsUnguarded(sixCards, dealer, crib) ==
    RankedSuggestions(sixCards, dealer, crib)

evaluateDiscards(sixCards, dealer, crib) ==
    IF Len(sixCards) # DealSize
    THEN << >>
    ELSE RankedSuggestions(sixCards, dealer, crib)

\* SUIT_ORDER: spades 0, hearts 1, diamonds 2, clubs 3
SUIT_ORDER(suit) == (CHOOSE n \in DOMAIN SUITS : SUITS[n] = suit) - 1

\* the comparator of sortCards is negative: a sorts before b
CardBefore(a, b) ==
    IF a.order # b.order
    THEN a.order < b.order
    ELSE SUIT_ORDER(a.suit) < SUIT_ORDER(b.suit)

\* [...cards].sort(comparator), stable
RECURSIVE InsertCard(_, _)
InsertCard(sorted, card) ==
    IF sorted = << >>
    THEN << card >>
    ELSE IF CardBefore(card, Head(sorted))
    THEN << card >> \o sorted
    ELSE << Head(sorted) >> \o InsertCard(Tail(sorted), card)

RECURSIVE SortLoop(_, _)
SortLoop(sorted, rest) ==
    IF rest = << >>
    THEN sorted
    ELSE SortLoop(InsertCard(sorted, Head(rest)), Tail(rest))

sortCards(cards) == SortLoop(<< >>, cards)

(***************************************************************************)
(* The engine as its callers drive it: one call with its arguments, then   *)
(* its result.  The arguments are drawn from bounded parts of the deck.    *)
(***************************************************************************)
NoResult == [ total |-> -1, parts |-> << >> ]

CardOf(id) == DECK[CHOOSE i \in DOMAIN DECK : DECK[i].id = id]

\* The cards hands and starters are drawn from, most telling first: the four
\* fives and a Jack (the 29 hand), a second Jack, hearts and spades enough for
\* flushes and runs of up to five, then one of each remaining kind.
SampleIds ==
    << "5S", "5H", "5D", "5C", "JH", "JS", "3H", "4H", "6H", "7H",
       "4S", "6S", "7S", "4D", "6D", "KD", "10H", "8C", "AS", "9D", "2C", "QC" >>

UniverseSize == 15

\* the first UniverseSize sample cards, in DECK order
Universe ==
    SelectSeq(DECK, LAMBDA c :
        \E n \in 1..UniverseSize : n <= Len(SampleIds) /\ SampleIds[n] = c.id)

\* every 4-card hand of the universe, its cards in DECK order
Hands ==
    LET U == DOMAIN Universe
    IN  { << Universe[t[1]], Universe[t[2]], Universe[t[3]], Universe[t[4]] >> :
            t \in { u \in U \X U \X U \X U :
                      u[1] < u[2] /\ u[2] < u[3] /\ u[3] < u[4] } }

MaxRunCards == 7

\* a card list for findRuns, in DECK order: one card of every order in `single`,
\* a second one of every order in `double`
RunCards(single, double) ==
    SelectSeq(DECK, LAMBDA c :
        \/ c.order \in single /\ c.suit = SUITS[1]
        \/ c.order \in double /\ c.suit = SUITS[2])

MaxDealt == 7

\* card lists of every length up to MaxDealt but the six of a deal
WrongSizeDeals ==
    { SubSeq(Universe, a, a + n - 1) :
        <<a, n>> \in { an \in (DOMAIN Universe) \X (0..MaxDealt) :
                         an[2] # DealSize /\ an[1] + an[2] - 1 <= Len(Universe) } }

\* no callback pending: the effect only ever closes over six cards
NoRun == [discardPick |-> << >>, isDealer |-> FALSE, includeCrib |-> FALSE]

\* the page as useState leaves it, with no render committed yet
PageIdle ==
    /\ discardPick = << >>
    /\ discardNote = "null"
    /\ discardSuggestions = << >>
    /\ discardLoading = FALSE
    /\ testCards = << >>
    /\ effectDue = FALSE
    /\ frame = NoRun
    /\ timeout = NoRun
    /\ removals = 0

PlayerIds == << "p1", "p2", "p3" >>

createPlayersForCount(count) ==
    [ n \in 1..count |-> [id |-> PlayerIds[n], score |-> 0, backPegScore |-> -1] ]

createInitialPlayers == createPlayersForCount(2)

\* the scoreboard as useState and useRef leave it, nothing stored
BoardIdle ==
    /\ playerCount = 2
    /\ players = createInitialPlayers
    /\ history = << >>
    /\ currentIndex = -1
    /\ lastAction = "null"
    /\ removedEntries = << >>
    /\ storage = << >>
    /\ issued = 0
    /\ mounts = 0
    /\ trail = << >>

UiIdle == PageIdle /\ BoardIdle

InitScoreHand ==
    /\ call = "scoreHand"
    /\ hand \in Hands
    /\ starter \in Range(Universe) \ Range(hand)
    /\ isDealer = FALSE
    /\ includeCrib = FALSE

InitScoreHandWithoutStarter ==
    /\ call = "scoreHandWithoutStarter"
    /\ hand \in Hands
    /\ starter = NoCard
    /\ isDealer = FALSE
    /\ includeCrib = FALSE

InitFindRuns ==
    /\ call = "findRuns"
    /\ \E single \in SUBSET (1..MaxOrder) :
          /\ Cardinality(single) <= MaxRunCards
          /\ \E double \in SUBSET single :
                /\ Cardinality(single) + Cardinality(double) <= MaxRunCards
                /\ hand = RunCards(single, double)
    /\ starter = NoCard
    /\ isDealer = FALSE
    /\ includeCrib = FALSE

InitEvaluateDiscards ==
    /\ call = "evaluateDiscards"
    /\ hand \in WrongSizeDeals
    /\ starter = NoCard
    /\ isDealer \in BOOLEAN
    /\ includeCrib \in BOOLEAN

Init ==
    /\ \/ InitScoreHand
       \/ InitScoreHandWithoutStarter
       \/ InitFindRuns
       \/ InitEvaluateDiscards
    /\ pool = << >>
    /\ pick = 0
    /\ deck = DECK
    /\ calls = 1
    /\ memo = { }
    /\ returned = FALSE
    /\ out = NoResult
    /\ UiIdle

ScoreHand ==
    /\ call = "scoreHand"
    /\ ~returned
    /\ out' = scoreHand(hand, starter)
    /\ returned' = TRUE
    /\ UNCHANGED <<call, hand, starter, pool, pick, deck, calls, memo, isDealer, includeCrib, uiVars>>

ScoreHandWithoutStarter ==
    /\ call = "scoreHandWithoutStarter"
    /\ ~returned
    /\ out' = scoreHandWithoutStarter(hand)
    /\ returned' = TRUE
    /\ UNCHANGED <<call, hand, starter, pool, pick, deck, calls, memo, isDealer, includeCrib, uiVars>>

FindRuns ==
    /\ call = "findRuns"
    /\ ~returned
    /\ out' = findRuns(hand)
    /\ returned' = TRUE
    /\ UNCHANGED <<call, hand, starter, pool, pick, deck, calls, memo, isDealer, includeCrib, uiVars>>

\* the memo with this evaluateDiscards call and its result added, unless a
\* call with the same arguments is in it already (memo is a history of the
\* calls, kept for the properties; the code keeps none)
Remembered(result) ==
    IF \E m \in memo : m.given = <<hand, isDealer, includeCrib>>
    THEN memo
    ELSE memo \cup { [ given |-> <<hand, isDealer, includeCrib>>,
                       got   |-> result,
                       at    |-> calls ] }

\* evaluateDiscards gone wrong: the dealt cards are spliced out of DECK itself
EvaluateDiscardsSplicing ==
    /\ call = "evaluateDiscards"
    /\ ~returned
    /\ out' = evaluateDiscards(hand, isDealer, includeCrib)
    /\ returned' = TRUE
    /\ deck' = IF Len(hand) = DealSize THEN StarterPool(hand) ELSE deck
    /\ memo' = Remembered(out')
    /\ UNCHANGED <<call, hand, starter, pool, pick, calls, isDealer, includeCrib, uiVars>>

EvaluateDiscards ==
    /\ call = "evaluateDiscards"
    /\ ~returned
    /\ out' = evaluateDiscards(hand, isDealer, includeCrib)
    /\ returned' = TRUE
    /\ memo' = Remembered(out')
    /\ UNCHANGED <<call, hand, starter, pool, pick, deck, calls, isDealer, includeCrib, uiVars>>

Next ==
    \/ ScoreHand
    \/ ScoreHandWithoutStarter
    \/ FindRuns
    \/ EvaluateDiscards

Spec == Init /\ [][Next]_vars

(***************************************************************************)
(* What the claims speak of, stated over sets of cards and independently   *)
(* of the scorer's enumeration.                                            *)
(***************************************************************************)
ScoreHandReturned == call = "scoreHand" /\ returned
HandOnlyReturned == call = "scoreHandWithoutStarter" /\ returned
FindRunsReturned == call = "findRuns" /\ returned
EvaluateReturned == call = "evaluateDiscards" /\ returned

FiveCards == Append(hand, starter)

\* the hand's cards in the order p gives them
Permuted(h, p) == [ k \in DOMAIN h |-> h[p[k]] ]

\* the five cards with the n-th one taken out
Without(cards, n) == SubSeq(cards, 1, n - 1) \o SubSeq(cards, n + 1, Len(cards))

PartPoints(breakdown, label) ==
    SumSeq([ k \in DOMAIN breakdown.parts |->
               IF breakdown.parts[k].label = label
               THEN breakdown.parts[k].points
               ELSE 0 ])

RECURSIVE PipSum(_)
PipSum(S) ==
    IF S = {} THEN 0
    ELSE LET c == CHOOSE x \in S : TRUE IN c.value + PipSum(S \ { c })

\* the sets of two or more of the cards whose pip values add up to 15
FifteenSets(cards) ==
    { S \in SUBSET Range(cards) : Cardinality(S) >= 2 /\ PipSum(S) = 15 }

RankCount(cards, label) == Cardinality({ c \in Range(cards) : c.rank = label })

\* the sum over the ranks occurring c >= 2 times of c * (c - 1)
PairsOf(cards) ==
    SumSeq([ n \in DOMAIN RANKS |->
               LET c == RankCount(cards, RANKS[n].label)
               IN  IF c >= 2 THEN c * (c - 1) ELSE 0 ])

PerfectHand == { CardOf("5S"), CardOf("5C"), CardOf("5D"), CardOf("JH") }

\* C1: scoreHand(hand, starter).total is the same for every permutation of the
\* four hand cards, the starter kept fixed (the identity permutation is the
\* repeated call).
C1_PermutationInvariant ==
    ScoreHandReturned =>
        \A p \in Permutations(DOMAIN hand) :
            scoreHand(Permuted(hand, p), starter).total = out.total

\* C1 witness: a scored hand holding a run, whose cards a reordering would
\* take out of sequence.
C1_Witness ==
    /\ ScoreHandReturned
    /\ PartPoints(out, "Runs") > 0
    /\ \E p \in Permutations(DOMAIN hand) : Permuted(hand, p) # hand

\* C2 as claimed: the total is the same whichever of the five cards is passed
\* as the starter and whichever four as the hand.
C2_TotalOfFiveCardSet ==
    ScoreHandReturned =>
        \A n \in DOMAIN FiveCards :
            scoreHand(Without(FiveCards, n), FiveCards[n]).total = out.total

\* C2 as amended: the Fifteens, Pairs and Runs parts are the same whichever of
\* the five cards is passed as the starter; only Flush and His Nobs tell the
\* starter from the hand.
C2_SetPartsOfFiveCardSet ==
    ScoreHandReturned =>
        \A n \in DOMAIN FiveCards :
            LET other == scoreHand(Without(FiveCards, n), FiveCards[n])
            IN  /\ PartPoints(other, "Fifteens") = PartPoints(out, "Fifteens")
                /\ PartPoints(other, "Pairs") = PartPoints(out, "Pairs")
                /\ PartPoints(other, "Runs") = PartPoints(out, "Runs")
                /\ other.total - PartPoints(other, "Flush") - PartPoints(other, "His Nobs")
                     = out.total - PartPoints(out, "Flush") - PartPoints(out, "His Nobs")

\* C2 witness: a scored hand with a pair and a fifteen where taking another
\* card as the starter changes the total.
C2_Witness ==
    /\ ScoreHandReturned
    /\ PartPoints(out, "Pairs") > 0
    /\ PartPoints(out, "Fifteens") > 0
    /\ \E n \in DOMAIN FiveCards :
           scoreHand(Without(FiveCards, n), FiveCards[n]).total # out.total

\* C3: the total of a hand of 4 distinct cards and a further starter is an
\* integer in 0..29, and the hand 5S 5C 5D JH with starter 5H scores 29.
C3_TotalWithin29 ==
    ScoreHandReturned =>
        /\ out.total \in 0..29
        /\ (Range(hand) = PerfectHand /\ starter = CardOf("5H")) => out.total = 29

\* C3 witness: the perfect hand has been scored, at 29.
C3_Witness ==
    /\ ScoreHandReturned
    /\ Range(hand) = PerfectHand
    /\ starter = CardOf("5H")
    /\ out.total = 29

\* C4: the Fifteens part is 2 times the number of distinct sets of two or more
\* of the five cards whose pip values add up to 15.
C4_FifteensCountSubsets ==
    ScoreHandReturned =>
        /\ out.parts[1].label = "Fifteens"
        /\ out.parts[1].points = 2 * Cardinality(FifteenSets(FiveCards))

\* C4 witness: a scored hand in which one card takes part in several counted
\* fifteens.
C4_Witness ==
    /\ ScoreHandReturned
    /\ out.parts[1].points >= 4
    /\ \E c \in Range(FiveCards) :
           Cardinality({ S \in FifteenSets(FiveCards) : c \in S }) >= 2

\* C5: the Pairs part is the sum, over the ranks occurring c >= 2 times among
\* the five cards, of c * (c - 1): 2 for a pair, 6 for three, 12 for four.
C5_PairsByRankCount ==
    ScoreHandReturned =>
        /\ out.parts[2].label = "Pairs"
        /\ out.parts[2].points = PairsOf(FiveCards)
        /\ \A n \in DOMAIN RANKS :
               LET c == RankCount(FiveCards, RANKS[n].label)
               IN  (c = 4 /\ \A m \in DOMAIN RANKS :
                                m # n => RankCount(FiveCards, RANKS[m].label) < 2)
                       => out.parts[2].points = 12

\* C5 witness: four of a kind across hand and starter, scored 12 for pairs.
C5_Witness ==
    /\ ScoreHandReturned
    /\ \E n \in DOMAIN RANKS : RankCount(FiveCards, RANKS[n].label) = 4
    /\ out.parts[2].points = 12

OrderCount(cards, o) == Cardinality({ k \in DOMAIN cards : cards[k].order = o })

\* the maximal contiguous ranges <<low, high>> of orders that occur in the cards
RunRanges(cards) ==
    LET present == { cards[k].order : k \in DOMAIN cards }
    IN  { r \in present \X present :
            /\ r[1] <= r[2]
            /\ (r[1]..r[2]) \subseteq present
            /\ (r[1] - 1) \notin present
            /\ (r[2] + 1) \notin present }

RangeLength(r) == r[2] - r[1] + 1

\* L*: the greatest length among the ranges, 0 when there is none
LongestOf(ranges) ==
    IF ranges = {} THEN 0
    ELSE CHOOSE n \in { RangeLength(r) : r \in ranges } :
             \A r \in ranges : RangeLength(r) <= n

RECURSIVE CountProduct(_, _, _)
CountProduct(cards, low, high) ==
    IF low > high THEN 1
    ELSE OrderCount(cards, low) * CountProduct(cards, low + 1, high)

RECURSIVE RangesScore(_, _)
RangesScore(cards, ranges) ==
    IF ranges = {} THEN 0
    ELSE LET r == CHOOSE x \in ranges : TRUE
         IN  RangeLength(r) * CountProduct(cards, r[1], r[2])
                 + RangesScore(cards, ranges \ { r })

\* the runs score as the claim words it
RunsOf(cards) ==
    LET ranges  == RunRanges(cards)
        longest == LongestOf(ranges)
    IN  IF longest < 3 THEN 0
        ELSE RangesScore(cards, { r \in ranges : RangeLength(r) = longest })

HandSuits == { hand[k].suit : k \in DOMAIN hand }

FlushOf(h, s) ==
    IF Cardinality({ h[k].suit : k \in DOMAIN h }) # 1 THEN 0
    ELSE IF s.suit \in { h[k].suit : k \in DOMAIN h } THEN 5
    ELSE 4

\* C6: findRuns scores L* times the product of the occurrence counts for every
\* maximal range of orders of the greatest length L*, provided L* >= 3, and
\* nothing else, wherever the ranges lie in 1..13; so does the Runs part of
\* scoreHand over the five cards.
C6_RunsLongestRanges ==
    /\ FindRunsReturned => out.label = "Runs" /\ out.points = RunsOf(hand)
    /\ ScoreHandReturned =>
           out.parts[3].label = "Runs" /\ out.parts[3].points = RunsOf(FiveCards)

\* C6 witness: a list with a range of 3 orders below a separate range of 4 has
\* been scored, for the range of 4 alone.
C6_Witness ==
    /\ FindRunsReturned
    /\ \E r, q \in RunRanges(hand) :
           /\ RangeLength(r) = 3
           /\ RangeLength(q) = 4
           /\ r[2] < q[1]
           /\ out.points = 4 * CountProduct(hand, q[1], q[2])

\* C7: the Flush part is 0 when the 4 hand cards do not share one suit, 4 when
\* they do and the starter's suit differs, 5 when all five cards share it.
C7_FlushByHandSuit ==
    ScoreHandReturned =>
        /\ out.parts[4].label = "Flush"
        /\ out.parts[4].points = FlushOf(hand, starter)
        /\ (Cardinality(HandSuits) > 1 => out.parts[4].points = 0)

\* C7 witness: a one-suit hand scored with a starter of another suit, for 4.
C7_Witness ==
    /\ ScoreHandReturned
    /\ Cardinality(HandSuits) = 1
    /\ starter.suit \notin HandSuits
    /\ out.parts[4].points = 4

\* C8: the His Nobs part is 1 exactly when a hand card is the Jack of the
\* starter's suit, and 0 otherwise; a Jack that is the starter earns nothing.
C8_NobsJackInHand ==
    ScoreHandReturned =>
        /\ out.parts[5].label = "His Nobs"
        /\ out.parts[5].points \in { 0, 1 }
        /\ out.parts[5].points = 1
               <=> \E c \in Range(hand) : c.rank = "J" /\ c.suit = starter.suit
        /\ (starter.rank = "J" => out.parts[5].points = 0)

\* C8 witness: a hand holding the Jack of the starter's suit, scored 1.
C8_Witness ==
    /\ ScoreHandReturned
    /\ \E c \in Range(hand) : c.rank = "J" /\ c.suit = starter.suit
    /\ out.parts[5].points = 1

\* C9: scoreHandWithoutStarter returns the four parts Fifteens, Pairs, Runs and
\* Flush in that order, each over the 4 hand cards alone; its Flush part is 4
\* for a one-suit hand and 0 otherwise, never 5; its total is the parts' sum.
C9_HandOnlyFourParts ==
    HandOnlyReturned =>
        /\ Len(out.parts) = 4
        /\ [ k \in 1..4 |-> out.parts[k].label ]
               = << "Fifteens", "Pairs", "Runs", "Flush" >>
        /\ out.parts[1].points = 2 * Cardinality(FifteenSets(hand))
        /\ out.parts[2].points = PairsOf(hand)
        /\ out.parts[3].points = RunsOf(hand)
        /\ out.parts[4].points = (IF Cardinality(HandSuits) = 1 THEN 4 ELSE 0)
        /\ out.total = out.parts[1].points + out.parts[2].points
                           + out.parts[3].points + out.parts[4].points

\* C9 witness: a one-suit hand scored without a starter, its flush at 4.
C9_Witness ==
    /\ HandOnlyReturned
    /\ Cardinality(HandSuits) = 1
    /\ out.parts[4].points = 4

\* C10: evaluateDiscards on a card list of any length other than 6 returns the
\* empty list, whatever isDealer and includeCrib are.
C10_WrongSizeEmpty ==
    (EvaluateReturned /\ Len(hand) # 6) => out = << >>

\* C10 witness: a call with 7 cards and the crib included has returned, empty.
C10_Witness ==
    /\ EvaluateReturned
    /\ Len(hand) = 7
    /\ includeCrib
    /\ out = << >>

(***************************************************************************)
(* The discard solver on six-card deals                                    *)
(***************************************************************************)
SampleCards == [ n \in DOMAIN SampleIds |-> CardOf(SampleIds[n]) ]

\* n sample cards in a row from the a-th on (wrapping round)
Window(a, n) ==
    [ k \in 1..n |-> SampleCards[((a - 1 + k - 1) % Len(SampleCards)) + 1] ]

MaxStride == 2

\* six sample cards, every stride-th one from the a-th on, in dealt order
Deal(a, stride) ==
    [ k \in 1..DealSize |->
        SampleCards[((a - 1 + (k - 1) * stride) % Len(SampleCards)) + 1] ]

Deals == { Deal(a, stride) : a \in DOMAIN SampleCards, stride \in 1..MaxStride }

\* what the caller passes: the function called and its arguments
Passing(name, cards, card, starterPool, n, dealer, crib) ==
    [ call |-> name, hand |-> cards, starter |-> card, pool |-> starterPool,
      pick |-> n, isDealer |-> dealer, includeCrib |-> crib ]

\* scoreHand, scoreHandWithoutStarter and sortCards on four sample cards in a
\* row, scoreHand with the card after them as the starter
ScoreArguments ==
    { Passing("scoreHand", Window(a, HandSize), Window(a + HandSize, 1)[1],
              << >>, 0, FALSE, FALSE) : a \in DOMAIN SampleCards }
    \cup { Passing(name, Window(a, HandSize), NoCard, << >>, 0, FALSE, FALSE) :
             name \in { "scoreHandWithoutStarter", "sortCards" },
             a \in DOMAIN SampleCards }

MaxPool == 5

\* averageHandScores on a small pool: a window of up to MaxPool sample cards
\* as starterPool, the four sample cards after it as the hand
AverageArguments ==
    { Passing("averageHandScores", Window(a + n, HandSize), NoCard, Window(a, n),
              0, FALSE, FALSE) : a \in DOMAIN SampleCards, n \in 0..MaxPool }

\* expectedCribValue on a small pool: a window of up to MaxPool sample cards as
\* starterPool, the two sample cards after it as ourDiscards
CribArguments ==
    { Passing("expectedCribValue", Window(a + n, 2), NoCard, Window(a, n),
              0, dealer, TRUE) :
        a \in DOMAIN SampleCards, n \in 0..MaxPool, dealer \in BOOLEAN }

\* evaluateDiscards on a six-card deal, the crib left out
DealArguments ==
    { Passing("evaluateDiscards", deal, NoCard, << >>, 0, dealer, FALSE) :
        deal \in Deals, dealer \in BOOLEAN }

MaxPick == 1

\* One pass of the keepCombos.map callback of evaluateDiscards, on the first
\* deal and one of its first MaxPick keeps: the only place the crib is averaged
\* over the whole 46-card pool (45,540 scored cribs for one keep).
MapArguments ==
    { Passing("keepCombos.map", Deal(1, 1), NoCard, << >>, n, dealer, crib) :
        n \in 1..MaxPick, dealer \in BOOLEAN, crib \in BOOLEAN }

\* the calls the page can make
CallArguments == ScoreArguments \cup AverageArguments \cup CribArguments \cup DealArguments

Passed(a) ==
    /\ call = a.call
    /\ hand = a.hand
    /\ starter = a.starter
    /\ pool = a.pool
    /\ pick = a.pick
    /\ isDealer = a.isDealer
    /\ includeCrib = a.includeCrib

InitCall == \E a \in CallArguments : Passed(a)

InitSuggest == \E a \in MapArguments : Passed(a)

SolverInit ==
    /\ \/ InitCall
       \/ InitSuggest
    /\ deck = DECK
    /\ calls = 1
    /\ memo = { }
    /\ returned = FALSE
    /\ out = NoResult
    /\ UiIdle

\* sortCards gone wrong: cards.sort(...) on the caller's own array
SortCardsInPlace ==
    /\ call = "sortCards"
    /\ ~returned
    /\ out' = sortCards(hand)
    /\ hand' = sortCards(hand)
    /\ returned' = TRUE
    /\ UNCHANGED <<call, starter, pool, pick, deck, calls, memo, isDealer, includeCrib, uiVars>>

SortCards ==
    /\ call = "sortCards"
    /\ ~returned
    /\ out' = sortCards(hand)
    /\ returned' = TRUE
    /\ UNCHANGED <<call, hand, starter, pool, pick, deck, calls, memo, isDealer, includeCrib, uiVars>>

AverageHandScores ==
    /\ call = "averageHandScores"
    /\ ~returned
    /\ out' = averageHandScores(hand, pool)
    /\ returned' = TRUE
    /\ UNCHANGED <<call, hand, starter, pool, pick, deck, calls, memo, isDealer, includeCrib, uiVars>>

ExpectedCribValue ==
    /\ call = "expectedCribValue"
    /\ ~returned
    /\ out' = expectedCribValue(hand, pool, isDealer)
    /\ returned' = TRUE
    /\ UNCHANGED <<call, hand, starter, pool, pick, deck, calls, memo, isDealer, includeCrib, uiVars>>

SuggestKeep ==
    /\ call = "keepCombos.map"
    /\ ~returned
    /\ out' = Suggestion(hand, chooseN(hand, HandSize)[pick], isDealer, includeCrib)
    /\ returned' = TRUE
    /\ UNCHANGED <<call, hand, starter, pool, pick, deck, calls, memo, isDealer, includeCrib, uiVars>>

SolverNext ==
    \/ ScoreHand
    \/ ScoreHandWithoutStarter
    \/ SortCards
    \/ AverageHandScores
    \/ ExpectedCribValue
    \/ SuggestKeep
    \/ EvaluateDiscards

SolverSpec == SolverInit /\ [][SolverNext]_vars

(***************************************************************************)
(* A caller that makes several calls in a row                              *)
(***************************************************************************)
MaxRepeatDeals == 3

\* the calls of such a caller: the first MaxRepeatDeals evaluateDiscards calls
\* of the list (deal 1 as dealer, deal 1 as non-dealer, deal 2 as dealer, ...),
\* and scoreHand, scoreHandWithoutStarter and sortCards on sample cards
RepeatArguments ==
    { Passing("evaluateDiscards", Deal((a + 1) \div 2, 1), NoCard, << >>, 0,
              a % 2 = 1, FALSE) : a \in 1..MaxRepeatDeals }
    \cup { Passing("scoreHand", Window(a, HandSize), Window(a + HandSize, 1)[1],
                   << >>, 0, FALSE, FALSE) : a \in 1..MaxRepeatDeals }
    \cup { Passing(name, Window(a, HandSize), NoCard, << >>, 0, FALSE, FALSE) :
             name \in { "scoreHandWithoutStarter", "sortCards" },
             a \in 1..MaxRepeatDeals }

RepeatInit ==
    /\ \E a \in RepeatArguments : Passed(a)
    /\ deck = DECK
    /\ calls = 1
    /\ memo = { }
    /\ returned = FALSE
    /\ out = NoResult
    /\ UiIdle

MaxCalls == 3

\* the caller, having got its result, makes another call
NextCall ==
    /\ returned
    /\ calls < MaxCalls
    /\ \E a \in RepeatArguments :
          /\ call' = a.call
          /\ hand' = a.hand
          /\ starter' = a.starter
          /\ pool' = a.pool
          /\ pick' = a.pick
          /\ isDealer' = a.isDealer
          /\ includeCrib' = a.includeCrib
    /\ calls' = calls + 1
    /\ returned' = FALSE
    /\ out' = NoResult
    /\ UNCHANGED <<deck, memo, uiVars>>

RepeatNext ==
    \/ ScoreHand
    \/ ScoreHandWithoutStarter
    \/ SortCards
    \/ EvaluateDiscards
    \/ NextCall

RepeatSpec == RepeatInit /\ [][RepeatNext]_vars

DealReturned == EvaluateReturned /\ Len(hand) = DealSize

\* C11: evaluateDiscards on six distinct cards returns exactly 3 suggestions;
\* in each, keep has 4 cards and discards 2, the two are disjoint and together
\* they are the six cards passed in; the three keeps are pairwise different.
C11_ThreeSplits ==
    DealReturned =>
        /\ Len(out) = 3
        /\ \A n \in DOMAIN out :
              /\ Len(out[n].keep) = 4
              /\ Cardinality(Range(out[n].keep)) = 4
              /\ Len(out[n].discards) = 2
              /\ Cardinality(Range(out[n].discards)) = 2
              /\ Range(out[n].keep) \cap Range(out[n].discards) = { }
              /\ Range(out[n].keep) \cup Range(out[n].discards) = Range(hand)
        /\ \A m, n \in DOMAIN out :
              m # n => Range(out[m].keep) # Range(out[n].keep)

\* C11 witness: a deal has come back as three splits, the first keeping the
\* first dealt card and throwing the last.
C11_Witness ==
    /\ DealReturned
    /\ Len(out) = 3
    /\ hand[1] \in Range(out[1].keep)
    /\ hand[6] \in Range(out[1].discards)

\* the fifteen splits of the deal in chooseN order, each with its suggestion
AllSplits == 
    LET keepCombos == chooseN(hand, 4)
    IN  [ n \in DOMAIN keepCombos |-> Suggestion(hand, keepCombos[n], isDealer, includeCrib) ]

MoreThan(x, y) == x.num * y.den > y.num * x.den
SameAs(x, y) == x.num * y.den = y.num * x.den

\* split a of `splits` ranks ahead of split b: a larger expectedValue, or the
\* same one and an earlier place in the enumeration
Ahead(splits, a, b) ==
    \/ MoreThan(splits[a].expectedValue, splits[b].expectedValue)
    \/ /\ SameAs(splits[a].expectedValue, splits[b].expectedValue)
       /\ a < b

\* C12: the list evaluateDiscards returns is the first three of the fifteen
\* splits under a stable sort by expectedValue descending: it is non-increasing
\* in expectedValue, no split left out has a larger expectedValue than one
\* returned, and splits of equal expectedValue stay in chooseN order.
C12_TopThreeStable ==
    DealReturned =>
        LET splits == AllSplits
        IN  \E p \in [ 1..3 -> DOMAIN splits ] :
              /\ out = [ n \in 1..3 |-> splits[p[n]] ]
              /\ Ahead(splits, p[1], p[2])
              /\ Ahead(splits, p[2], p[3])
              /\ \A q \in DOMAIN splits \ { p[1], p[2], p[3] } : Ahead(splits, p[3], q)
              /\ \A n \in 1..2 : ~MoreThan(out[n + 1].expectedValue, out[n].expectedValue)

\* C12 witness: a deal has come back whose first two suggestions differ in
\* expectedValue while the third ties with a split that was left out.
C12_Witness ==
    /\ DealReturned
    /\ Len(out) = 3
    /\ MoreThan(out[1].expectedValue, out[2].expectedValue)
    /\ LET splits == AllSplits
       IN  \E q \in DOMAIN splits :
             /\ \A n \in 1..3 : splits[q].keep # out[n].keep
             /\ SameAs(splits[q].expectedValue, out[3].expectedValue)

SuggestReturned == call = "keepCombos.map" /\ returned

\* the suggestions the call in this state has produced
Produced ==
    IF DealReturned THEN Range(out)
    ELSE IF SuggestReturned THEN { out }
    ELSE { }

RECURSIVE Gcd(_, _)
Gcd(a, b) == IF b = 0 THEN a ELSE Gcd(b, a % b)

\* a fraction in lowest terms
Lowest(x) ==
    LET g == Gcd(IF x.num < 0 THEN -x.num ELSE x.num, x.den)
    IN  [ num |-> x.num \div g, den |-> x.den \div g ]

\* x = y + z and x = y - z on exact fractions
IsSum(x, y, z) ==
    Lowest(x) = Lowest([ num |-> y.num * z.den + z.num * y.den, den |-> y.den * z.den ])
IsDifference(x, y, z) ==
    Lowest(x) = Lowest([ num |-> y.num * z.den - z.num * y.den, den |-> y.den * z.den ])

\* C13: with includeCrib false a suggestion has cribAverage 0 and expectedValue
\* equal to handAverage, whichever isDealer is; with includeCrib true its
\* expectedValue is handAverage + cribAverage for the dealer and
\* handAverage - cribAverage for the non-dealer.
C13_ExpectedValueByRole ==
    \A s \in Produced :
        /\ ~includeCrib =>
              /\ s.cribAverage.num = 0
              /\ SameAs(s.expectedValue, s.handAverage)
        /\ (includeCrib /\ isDealer) =>
              IsSum(s.expectedValue, s.handAverage, s.cribAverage)
        /\ (includeCrib /\ ~isDealer) =>
              IsDifference(s.expectedValue, s.handAverage, s.cribAverage)

\* C13 witness: the non-dealer's suggestion with the crib included has been
\* built, the crib is worth something and the expectedValue is below the
\* hand's average.
C13_Witness ==
    /\ SuggestReturned
    /\ includeCrib
    /\ ~isDealer
    /\ out.cribAverage.num > 0
    /\ MoreThan(out.handAverage, out.expectedValue)

\* the cards of the deck that were not dealt
Unseen == { c \in Range(DECK) : \A k \in DOMAIN hand : hand[k].id # c.id }

\* the sum of scoreHand(keep, s).total over the starters s of a set
RECURSIVE ScoreSum(_, _)
ScoreSum(keep, starters) ==
    IF starters = { }
    THEN 0
    ELSE LET s == CHOOSE c \in starters : TRUE
         IN  scoreHand(keep, s).total + ScoreSum(keep, starters \ { s })

\* C14: the starter pool of a deal is exactly the 46 deck cards that were not
\* dealt, each once, and a suggestion's handAverage is the sum of
\* scoreHand(keep, s).total over those 46 starters divided by 46.
C14_AverageOverUnseen ==
    (DealReturned \/ SuggestReturned) =>
        /\ Len(StarterPool(hand)) = 46
        /\ Cardinality(Range(StarterPool(hand))) = 46
        /\ Range(StarterPool(hand)) = Unseen
        /\ \A s \in Produced :
              /\ s.handAverage.den = 46
              /\ s.handAverage.num = ScoreSum(s.keep, Unseen)

\* C14 witness: a deal has come back and its best keep scores with some
\* starters and not with others (the average is neither 0 nor a whole number).
C14_Witness ==
    /\ DealReturned
    /\ Len(out) = 3
    /\ out[1].handAverage.num > 0
    /\ out[1].handAverage.num % 46 # 0

CribReturned == call = "expectedCribValue" /\ returned

\* the opponent pairs of a pool that count: every unordered pair of two pool
\* places, less, for the non-dealer, those with a 5 or two cards of one rank
CountedPairs(cards) ==
    { p \in (DOMAIN cards) \X (DOMAIN cards) :
        /\ p[1] < p[2]
        /\ isDealer \/ ~(\/ cards[p[1]].rank = "5"
                         \/ cards[p[2]].rank = "5"
                         \/ cards[p[1]].rank = cards[p[2]].rank) }

\* every counted pair with every starter of the pool other than its two cards
CribTerms(cards) ==
    { t \in (DOMAIN cards) \X (DOMAIN cards) \X (DOMAIN cards) :
        /\ <<t[1], t[2]>> \in CountedPairs(cards)
        /\ t[3] # t[1]
        /\ t[3] # t[2] }

\* the sum over a set of terms of the crib's score: our two discards and the
\* opponent's pair, with the term's starter
RECURSIVE CribSum(_, _, _)
CribSum(ourDiscards, cards, terms) ==
    IF terms = { }
    THEN 0
    ELSE LET t == CHOOSE u \in terms : TRUE
         IN  scoreHand(<< cards[t[1]], cards[t[2]] >> \o ourDiscards, cards[t[3]]).total
               + CribSum(ourDiscards, cards, terms \ { t })

\* C15: expectedCribValue(ourDiscards, pool, isDealer) is the mean of
\* scoreHand(ourDiscards + {a, b}, c).total over every unordered pair {a, b} of
\* pool cards, each once, and every starter c of the pool other than a and b.
\* The dealer leaves no pair out (C(46,2) x 44 terms on a 46-card pool); the
\* non-dealer leaves out exactly the pairs that hold a 5 or two cards of one
\* rank, while a 5 as starter still counts.
C15_CribMeanOverPairs ==
    /\ CribReturned =>
          LET terms == CribTerms(pool)
          IN  IF terms = { }
              THEN out.num = 0
              ELSE /\ out.den = Cardinality(terms)
                   /\ out.num = CribSum(hand, pool, terms)
    /\ (SuggestReturned /\ includeCrib) =>
          /\ out.cribAverage.den = 44 * Cardinality(CountedPairs(StarterPool(hand)))
          /\ isDealer => out.cribAverage.den = 1035 * 44

\* C15 witness: the non-dealer's crib has been averaged over a pool where a
\* pair was left out, other pairs counted, and a 5 served as a starter.
C15_Witness ==
    /\ CribReturned
    /\ ~isDealer
    /\ out.num > 0
    /\ out.den < (Len(pool) * (Len(pool) - 1) * (Len(pool) - 2)) \div 2
    /\ \E t \in CribTerms(pool) : pool[t[3]].rank = "5"

\* the least of scoreHand(keep, s).total over the starters s of a set
LeastScore(keep, starters) ==
    CHOOSE least \in { scoreHand(keep, s).total : s \in starters } :
        \A s \in starters : least <= scoreHand(keep, s).total

\* C16: every suggestion evaluateDiscards returns carries a minHandScore, the
\* least scoreHand(keep, s).total over the 46 unseen cards, and so at most its
\* handAverage.  (The record built at lines 394-401 has no such field.)
C16_MinHandScoreCarried ==
    DealReturned =>
        \A n \in DOMAIN out :
            /\ "minHandScore" \in DOMAIN out[n]
            /\ out[n].minHandScore = LeastScore(out[n].keep, Unseen)
            /\ out[n].minHandScore * out[n].handAverage.den <= out[n].handAverage.num

AverageReturned == call = "averageHandScores" /\ returned

\* where a card stands in a card list
PlaceIn(cards, card) == CHOOSE k \in DOMAIN cards : cards[k] = card

\* starter a of the list `cards` ranks ahead of starter b for the hand `keep`:
\* a higher score, or the same score and an earlier place in the list
StarterAhead(keep, cards, a, b) ==
    LET sa == scoreHand(keep, a).total
        sb == scoreHand(keep, b).total
    IN  sa > sb \/ (sa = sb /\ PlaceIn(cards, a) < PlaceIn(cards, b))

\* `best` is the first three (or all, of fewer) of `cards` under that ranking,
\* each with its score
IsBestOf(best, keep, cards) ==
    LET listed == { best[m].card : m \in DOMAIN best }
    IN  /\ Len(best) = (IF Len(cards) < 3 THEN Len(cards) ELSE 3)
        /\ Cardinality(listed) = Len(best)
        /\ listed \subseteq Range(cards)
        /\ \A m \in DOMAIN best : best[m].score = scoreHand(keep, best[m].card).total
        /\ \A m \in DOMAIN best :
              m + 1 \in DOMAIN best =>
                  StarterAhead(keep, cards, best[m].card, best[m + 1].card)
        /\ \A c \in Range(cards) \ listed :
              \A m \in DOMAIN best : StarterAhead(keep, cards, best[m].card, c)

\* the unseen cards in DECK order
UnseenInDeckOrder == SelectSeq(DECK, LAMBDA c : c \in Unseen)

\* C17: a suggestion's bestStarters are the 3 pool cards with the highest
\* scoreHand(keep, s).total, by score descending; starters of equal score are
\* chosen and listed in the pool's (DECK) order, and no pool card left out
\* scores more than one listed.  The same holds of averageHandScores' best
\* for the pool it is given, in that pool's order.
C17_BestStartersTopThree ==
    /\ \A s \in Produced : IsBestOf(s.bestStarters, s.keep, UnseenInDeckOrder)
    /\ AverageReturned => IsBestOf(out.best, hand, pool)

\* C17 witness: a deal has come back whose best keep lists three starters,
\* the first scoring more than the third, the third scoring the same as a
\* pool card that is not listed.
C17_Witness ==
    /\ DealReturned
    /\ Len(out) = 3
    /\ Len(out[1].bestStarters) = 3
    /\ out[1].bestStarters[1].score > out[1].bestStarters[3].score
    /\ \E c \in Unseen :
          /\ \A m \in 1..3 : out[1].bestStarters[m].card # c
          /\ scoreHand(out[1].keep, c).total = out[1].bestStarters[3].score

\* C18: the averages never divide by zero.  averageHandScores with an empty
\* starter pool returns average 0 and an empty best list; expectedCribValue
\* returns 0 whenever no (pair, starter) combination is counted, be it that
\* the pool has fewer than 3 cards or that the non-dealer filter removes every
\* pair; and every average returned has a divisor that is not 0.
C18_GuardedAverages ==
    /\ AverageReturned =>
          /\ out.average.den > 0
          /\ pool = << >> => (out.average.num = 0 /\ out.best = << >>)
    /\ CribReturned =>
          /\ out.den > 0
          /\ Len(pool) < 3 => out.num = 0
          /\ CountedPairs(pool) = { } => out.num = 0
    /\ \A s \in Produced : s.handAverage.den > 0 /\ s.cribAverage.den > 0

\* C18 witness: the non-dealer's crib over a pool of at least 3 cards whose
\* every pair the filter removes has come back as 0.
C18_Witness ==
    /\ CribReturned
    /\ ~isDealer
    /\ Len(pool) >= 3
    /\ CountedPairs(pool) = { }
    /\ out.num = 0

SortReturned == call = "sortCards" /\ returned

\* C20: no engine operation mutates its inputs or the deck: across the step in
\* which scoreHand, scoreHandWithoutStarter, averageHandScores,
\* expectedCribValue, evaluateDiscards or sortCards returns, the caller's card
\* arrays keep their elements and their order, and DECK is the same 52 cards
\* in the same order, then and always.
C20_InputsAndDeckUntouched ==
    /\ [](deck = DECK /\ Len(deck) = 52)
    /\ [][ (~returned /\ returned') =>
              /\ hand' = hand
              /\ starter' = starter
              /\ pool' = pool
              /\ deck' = deck ]_vars

\* C20 witness: sortCards has returned the caller's four cards in another
\* order than the one they were passed in.
C20_Witness ==
    /\ SortReturned
    /\ Range(out) = Range(hand)
    /\ out # hand
    /\ deck = DECK

(***************************************************************************)
(* The two subset enumerators, called on their own                         *)
(***************************************************************************)
MaxItems == 6

\* generateCombos on up to MaxItems sample cards in a row; chooseN on the same
\* lists with every size from 0 to one more than MaxItems
ComboArguments ==
    { Passing("generateCombos", Window(a, n), NoCard, << >>, 0, FALSE, FALSE) :
        a \in DOMAIN SampleCards, n \in 0..MaxItems }
    \cup { Passing("chooseN", Window(a, n), NoCard, << >>, size, FALSE, FALSE) :
             a \in DOMAIN SampleCards, n \in 0..MaxItems, size \in 0..(MaxItems + 1) }

ComboInit ==
    /\ \E a \in ComboArguments : Passed(a)
    /\ deck = DECK
    /\ calls = 1
    /\ memo = { }
    /\ returned = FALSE
    /\ out = NoResult
    /\ UiIdle

GenerateCombos ==
    /\ call = "generateCombos"
    /\ ~returned
    /\ out' = generateCombos(hand)
    /\ returned' = TRUE
    /\ UNCHANGED <<call, hand, starter, pool, pick, deck, calls, memo, isDealer, includeCrib, uiVars>>

\* chooseN(items, size): the size is passed in pick
ChooseN ==
    /\ call = "chooseN"
    /\ ~returned
    /\ out' = chooseN(hand, pick)
    /\ returned' = TRUE
    /\ UNCHANGED <<call, hand, starter, pool, pick, deck, calls, memo, isDealer, includeCrib, uiVars>>

ComboNext ==
    \/ GenerateCombos
    \/ ChooseN

ComboSpec == ComboInit /\ [][ComboNext]_vars

CombosReturned == call = "generateCombos" /\ returned
ChooseReturned == call = "chooseN" /\ returned

RECURSIVE PowerOfTwo(_)
PowerOfTwo(n) == IF n = 0 THEN 1 ELSE 2 * PowerOfTwo(n - 1)

\* C(n, k) by Pascal's rule
RECURSIVE Binomial(_, _)
Binomial(n, k) ==
    IF k < 0 \/ k > n THEN 0
    ELSE IF k = 0 \/ k = n THEN 1
    ELSE Binomial(n - 1, k - 1) + Binomial(n - 1, k)

\* the entries of `part` are distinct items of `items`, in the order of `items`
InInputOrder(part, items) ==
    /\ \A p \in DOMAIN part : part[p] \in Range(items)
    /\ \A p, q \in DOMAIN part :
          p < q => PlaceIn(items, part[p]) < PlaceIn(items, part[q])

\* the results, as a list of lists, are exactly the sets of `wanted`, each once
EachOnce(results, wanted) ==
    /\ Len(results) = Cardinality(wanted)
    /\ { Range(results[n]) : n \in DOMAIN results } = wanted
    /\ \A n \in DOMAIN results : Len(results[n]) = Cardinality(Range(results[n]))

\* C21: generateCombos on n distinct items returns every non-empty subset
\* exactly once (2^n - 1 results); chooseN(items, k) returns every subset of
\* size k exactly once (C(n, k) results, 15 for n = 6 and k = 4); each result
\* lists its items in input order; chooseN returns the empty list when k > n.
C21_EverySubsetOnce ==
    /\ CombosReturned =>
          /\ Len(out) = PowerOfTwo(Len(hand)) - 1
          /\ EachOnce(out, (SUBSET Range(hand)) \ { { } })
          /\ \A n \in DOMAIN out : InInputOrder(out[n], hand)
    /\ ChooseReturned =>
          /\ Len(out) = Binomial(Len(hand), pick)
          /\ EachOnce(out, { S \in SUBSET Range(hand) : Cardinality(S) = pick })
          /\ \A n \in DOMAIN out : InInputOrder(out[n], hand)
          /\ pick > Len(hand) => out = << >>
          /\ (Len(hand) = 6 /\ pick = 4) => Len(out) = 15

\* C21 witness: chooseN has returned the 15 four-card subsets of six cards.
C21_Witness ==
    /\ ChooseReturned
    /\ Len(hand) = 6
    /\ pick = 4
    /\ Len(out) = 15

\* C22: DECK holds exactly 52 cards, one for every one of the 13 ranks with
\* every one of the 4 suits, with pairwise distinct ids, the id being the rank
\* followed by the suit; a card's value is 1 for the Ace, 10 for 10, J, Q and
\* K and the rank's number otherwise, and its order is the rank's place 1..13
\* in A, 2, ..., 10, J, Q, K.
C22_DeckOfFiftyTwo ==
    LET labels == << "A", "2", "3", "4", "5", "6", "7", "8", "9", "10", "J", "Q", "K" >>
        suits  == { "S", "H", "D", "C" }
    IN  /\ Len(deck) = 52
        /\ Cardinality({ deck[n].id : n \in DOMAIN deck }) = 52
        /\ \A r \in DOMAIN labels : \A s \in suits :
              Cardinality({ n \in DOMAIN deck :
                              deck[n].rank = labels[r] /\ deck[n].suit = s }) = 1
        /\ \A n \in DOMAIN deck :
              \E r \in DOMAIN labels :
                  /\ deck[n].rank = labels[r]
                  /\ deck[n].suit \in suits
                  /\ deck[n].id = labels[r] \o deck[n].suit
                  /\ deck[n].order = r
                  /\ deck[n].value = (IF r = 1 THEN 1 ELSE IF r >= 10 THEN 10 ELSE r)

\* C22 witness: a call has returned with the deck in place, its first card the
\* Ace of spades worth 1 and its last the King of clubs worth 10.
C22_Witness ==
    /\ returned
    /\ deck[1].id = "AS"
    /\ deck[1].value = 1
    /\ deck[52].id = "KC"
    /\ deck[52].value = 10
    /\ deck[52].order = 13


(***************************************************************************)
(* The discard tab of the page (app/page.tsx, the Home component)          *)
(*                                                                         *)
(* A handler runs to its end and React commits one render for all its      *)
(* setState calls.  When that render changed discardPick, isDealer or      *)
(* includeCrib the discard effect is due: React runs the previous run's    *)
(* cleanup and then the effect body before it handles another event or     *)
(* callback (the handlers are click handlers), so while effectDue holds    *)
(* nothing but RunDiscardEffect can happen.  The requested animation frame *)
(* and the armed timeout fire whenever the browser gets to them.           *)
(*                                                                         *)
(* The tab bar is left out: every handler below stays reachable through a  *)
(* switch of tab that touches none of this state.                          *)
(*                                                                         *)
(* The solver with the crib on is too dear over 46 unseen cards, so the    *)
(* page is run over a deck of PageDeckSize cards; nothing in the handlers  *)
(* or the effect looks at the size of the deck.                            *)
(***************************************************************************)
\* the cards of the page's deck, the ones the user clicks first
PageIds ==
    << "5S", "6H", "4D", "5C", "6S", "4H", "6D", "5H", "JS", "4S", "9D", "6C",
       "KD", "4C", "5D", "3H" >>

PageDeckSize == 10

\* the first PageDeckSize of them, in DECK order
PageDeck ==
    SelectSeq(DECK, LAMBDA c :
        \E n \in 1..PageDeckSize : n <= Len(PageIds) /\ PageIds[n] = c.id)

PickerSize == 7

\* the cards the user clicks in the picker, in the order they go through them
PickerCards == [ n \in 1..PickerSize |-> CardOf(PageIds[n]) ]

MaxRemovals == 1

MaxTestDeals == 1

\* what randomSix can have dealt: six picker cards from the a-th on
TestDeals ==
    { [ k \in 1..DealSize |-> PickerCards[((a + k - 2) % Len(PickerCards)) + 1] ] :
        a \in 1..MaxTestDeals }

discardSelectedIds == { discardPick[i].id : i \in DOMAIN discardPick }

\* the picker card the user clicks next when adding: the first they have not picked
Unpicked == { n \in DOMAIN PickerCards : PickerCards[n].id \notin discardSelectedIds }

NextUnpicked == PickerCards[CHOOSE n \in Unpicked : \A m \in Unpicked : n <= m]

Closure == [discardPick |-> discardPick, isDealer |-> isDealer, includeCrib |-> includeCrib]

engineVars == <<call, hand, starter, pool, pick, deck, calls, memo, returned, out>>

\* what no handler of the page touches
offPage == <<engineVars, boardVars>>

PageInit ==
    /\ call = "Home"
    /\ hand = << >>
    /\ starter = NoCard
    /\ pool = << >>
    /\ pick = 0
    /\ deck = PageDeck
    /\ calls = 0
    /\ memo = { }
    /\ returned = FALSE
    /\ out = NoResult
    /\ isDealer = TRUE
    /\ includeCrib = TRUE
    /\ discardPick = << >>
    /\ discardNote = "null"
    /\ discardSuggestions = << >>
    /\ discardLoading = FALSE
    /\ testCards = << >>
    /\ effectDue = TRUE
    /\ frame = NoRun
    /\ timeout = NoRun
    /\ removals = 0
    /\ BoardIdle

\* handleToggleDiscardCard gone wrong: a seventh card is taken like any other
handleToggleDiscardCardUncapped(card) ==
    /\ ~effectDue
    /\ IF card.id \in discardSelectedIds
       THEN /\ removals < MaxRemovals
            /\ discardPick' = SelectSeq(discardPick, LAMBDA c : c.id # card.id)
            /\ discardLoading' = FALSE
            /\ removals' = removals + 1
       ELSE /\ discardPick' = Append(discardPick, card)
            /\ discardLoading' = (Len(discardPick') = DealSize \/ discardLoading)
            /\ UNCHANGED removals
    /\ discardNote' = "null"
    /\ effectDue' = TRUE
    /\ UNCHANGED <<discardSuggestions, testCards, frame, timeout>>
    /\ UNCHANGED <<offPage, isDealer, includeCrib>>

handleToggleDiscardCard(card) ==
    /\ ~effectDue
    /\ IF card.id \in discardSelectedIds
       THEN /\ removals < MaxRemovals
            /\ discardPick' = SelectSeq(discardPick, LAMBDA c : c.id # card.id)
            /\ discardLoading' = FALSE
            /\ discardNote' = "null"
            /\ effectDue' = TRUE
            /\ removals' = removals + 1
       ELSE IF Len(discardPick) < DealSize
       THEN /\ card = NextUnpicked
            /\ discardPick' = Append(discardPick, card)
            /\ discardLoading' = (Len(discardPick') = DealSize \/ discardLoading)
            /\ discardNote' = "null"
            /\ effectDue' = TRUE
            /\ UNCHANGED removals
       ELSE /\ discardNote' = "You already picked 6 cards. Remove one to change the set."
            /\ UNCHANGED <<discardPick, discardLoading, effectDue, removals>>
    /\ UNCHANGED <<discardSuggestions, testCards, frame, timeout>>
    /\ UNCHANGED <<offPage, isDealer, includeCrib>>

resetDiscard ==
    /\ ~effectDue
    /\ discardPick' = << >>
    /\ discardNote' = "null"
    /\ discardLoading' = FALSE
    /\ effectDue' = TRUE
    /\ UNCHANGED <<discardSuggestions, testCards, frame, timeout, removals>>
    /\ UNCHANGED <<offPage, isDealer, includeCrib>>

refreshTestHand ==
    /\ ~effectDue
    /\ \E dealt \in TestDeals : testCards' = sortCards(dealt)
    /\ UNCHANGED <<discardPick, discardNote, discardSuggestions, discardLoading,
                   effectDue, frame, timeout, removals>>
    /\ UNCHANGED <<offPage, isDealer, includeCrib>>

sendTestToDiscard ==
    /\ ~effectDue
    /\ IF Len(testCards) # DealSize
       THEN UNCHANGED <<discardPick, discardNote, discardLoading, effectDue>>
       ELSE /\ discardPick' = sortCards(testCards)
            /\ discardNote' = "null"
            /\ discardLoading' = TRUE
            /\ effectDue' = TRUE
    /\ UNCHANGED <<discardSuggestions, testCards, frame, timeout, removals>>
    /\ UNCHANGED <<offPage, isDealer, includeCrib>>

setIsDealer(value) ==
    /\ ~effectDue
    /\ isDealer' = value
    /\ effectDue' = (value # isDealer)
    /\ UNCHANGED <<discardPick, discardNote, discardSuggestions, discardLoading,
                   testCards, frame, timeout, removals>>
    /\ UNCHANGED <<offPage, includeCrib>>

setIncludeCrib(value) ==
    /\ ~effectDue
    /\ includeCrib' = value
    /\ effectDue' = (value # includeCrib)
    /\ UNCHANGED <<discardPick, discardNote, discardSuggestions, discardLoading,
                   testCards, frame, timeout, removals>>
    /\ UNCHANGED <<offPage, isDealer>>

\* the discard effect gone wrong: its cleanup cancels the frame and leaves the timeout
RunDiscardEffectLeavingTimeout ==
    /\ effectDue
    /\ effectDue' = FALSE
    /\ IF Len(discardPick) # DealSize
       THEN /\ discardSuggestions' = << >>
            /\ discardLoading' = FALSE
            /\ frame' = NoRun
       ELSE /\ discardLoading' = TRUE
            /\ frame' = Closure
            /\ UNCHANGED discardSuggestions
    /\ UNCHANGED <<discardPick, discardNote, testCards, timeout, removals>>
    /\ UNCHANGED <<offPage, isDealer, includeCrib>>

\* the cleanup of the run before, then the effect body
RunDiscardEffect ==
    /\ effectDue
    /\ effectDue' = FALSE
    /\ timeout' = NoRun
    /\ IF Len(discardPick) # DealSize
       THEN /\ discardSuggestions' = << >>
            /\ discardLoading' = FALSE
            /\ frame' = NoRun
       ELSE /\ discardLoading' = TRUE
            /\ frame' = Closure
            /\ UNCHANGED discardSuggestions
    /\ UNCHANGED <<discardPick, discardNote, testCards, removals>>
    /\ UNCHANGED <<offPage, isDealer, includeCrib>>

\* the frame callback gone wrong: it arms no timeout
FrameFiresArmingNothing ==
    /\ ~effectDue
    /\ frame # NoRun
    /\ frame' = NoRun
    /\ UNCHANGED <<discardPick, discardNote, discardSuggestions, discardLoading,
                   testCards, effectDue, timeout, removals>>
    /\ UNCHANGED <<offPage, isDealer, includeCrib>>

\* the requestAnimationFrame callback
FrameFires ==
    /\ ~effectDue
    /\ frame # NoRun
    /\ timeout' = frame
    /\ frame' = NoRun
    /\ UNCHANGED <<discardPick, discardNote, discardSuggestions, discardLoading,
                   testCards, effectDue, removals>>
    /\ UNCHANGED <<offPage, isDealer, includeCrib>>

\* the setTimeout callback
TimeoutFires ==
    /\ ~effectDue
    /\ timeout # NoRun
    /\ timeout' = NoRun
    /\ discardLoading' = FALSE
    /\ UNCHANGED <<discardPick, discardNote, testCards, effectDue, frame, removals>>
    /\ UNCHANGED <<offPage, isDealer, includeCrib>>
    /\ discardSuggestions' =
           evaluateDiscards(timeout.discardPick, timeout.isDealer, timeout.includeCrib)

PageNext ==
    \/ \E card \in Range(PickerCards) : handleToggleDiscardCard(card)
    \/ resetDiscard
    \/ refreshTestHand
    \/ sendTestToDiscard
    \/ \E value \in BOOLEAN : setIsDealer(value)
    \/ \E value \in BOOLEAN : setIncludeCrib(value)
    \/ RunDiscardEffect
    \/ FrameFires
    \/ TimeoutFires

PageSpec == PageInit /\ [][PageNext]_vars

\* A TimeoutFires step, told by what it does to the timeout: no other step
\* spends an armed timeout while the effect is not due.  Fairness is stated on
\* it so that deciding whether the callback is enabled does not run the solver.
TimeoutSpent == ~effectDue /\ timeout # NoRun /\ timeout' = NoRun

\* React runs a due effect, and the browser gets to every requested frame and
\* armed timeout that is not cancelled first
PageFairSpec ==
    /\ PageInit
    /\ [][PageNext]_vars
    /\ WF_vars(RunDiscardEffect)
    /\ WF_vars(FrameFires)
    /\ WF_timeout(TimeoutSpent)


(***************************************************************************)
(* Claims about the discard tab                                            *)
(***************************************************************************)
Distinct(cards) == \A i, j \in DOMAIN cards : i # j => cards[i].id # cards[j].id

SixDistinct(cards) == Len(cards) = DealSize /\ Distinct(cards)

Full == "You already picked 6 cards. Remove one to change the set."

\* C23: whatever the user toggles, resets or sends over from the test tab,
\* discardPick holds at most six cards and no id twice; a click on an unpicked
\* card while six are picked leaves discardPick as it is; and every pending
\* run of the effect, the one that will call evaluateDiscards, closed over
\* exactly six distinct cards.
C23_AtMostSixDistinct ==
    /\ [](/\ Len(discardPick) <= DealSize
          /\ Distinct(discardPick)
          /\ frame # NoRun => SixDistinct(frame.discardPick)
          /\ timeout # NoRun => SixDistinct(timeout.discardPick))
    /\ [][\A card \in Range(PickerCards) :
            ( /\ Len(discardPick) = DealSize
              /\ card.id \notin discardSelectedIds
              /\ handleToggleDiscardCard(card) ) => discardPick' = discardPick]_vars

\* a seventh card was refused while the solver's answer for the six is shown
C23_Witness ==
    /\ discardNote = Full
    /\ Len(discardPick) = DealSize
    /\ removals > 0
    /\ discardSuggestions # << >>


\* a step that assigns discardSuggestions: the effect's early return or the
\* timeout callback (the callback is the one step that spends the timeout and
\* leaves effectDue alone)
Wrote ==
    \/ discardSuggestions' # discardSuggestions
    \/ timeout # NoRun /\ timeout' = NoRun /\ effectDue' = effectDue

\* C24: a superseded run never writes.  Once the effect has run after a change
\* of discardPick, isDealer or includeCrib, whatever frame or timeout is still
\* pending closed over the current three inputs (the older ones were
\* cancelled), and every write to discardSuggestions is the empty list or
\* evaluateDiscards of the inputs current at the write.
C24_NoSupersededWrite ==
    /\ [](~effectDue =>
            /\ frame # NoRun => frame = Closure
            /\ timeout # NoRun => timeout = Closure)
    /\ [][Wrote =>
            \/ discardSuggestions' = << >>
            \/ discardSuggestions' = evaluateDiscards(discardPick, isDealer, includeCrib)]_vars

\* the dealer flag was flipped while a timeout of the run before is armed, with
\* an earlier answer on show
C24_Witness ==
    /\ effectDue
    /\ timeout # NoRun
    /\ timeout.discardPick = discardPick
    /\ timeout.isDealer # isDealer
    /\ discardSuggestions # << >>

\* C25: whenever six cards are picked and the tab is not loading, the
\* suggestions on show are evaluateDiscards of the current discardPick, isDealer
\* and includeCrib, the render between a flip of isDealer or includeCrib and the
\* effect included.
C25_ShownForCurrentInputs ==
    (Len(discardPick) = DealSize /\ ~discardLoading) =>
        discardSuggestions = evaluateDiscards(discardPick, isDealer, includeCrib)


\* a handler's render has changed a dependency of the discard effect
InputsChange == ~effectDue /\ effectDue'

\* C26: loading resolves.  If from some point on no handler changes discardPick,
\* isDealer or includeCrib, then from some point on a pick of six cards is
\* shown, not loading, with evaluateDiscards of the current inputs: the pick
\* comes to rest with the effect run and loading off, and at rest the list is
\* the solver's result.  A pick of other than six cards always leads to not
\* loading with no suggestions.
C26_LoadingResolves ==
    /\ <>[][~InputsChange]_vars =>
           <>[](Len(discardPick) = DealSize => ~discardLoading /\ ~effectDue)
    /\ []((Len(discardPick) = DealSize /\ ~discardLoading /\ ~effectDue) =>
             discardSuggestions = evaluateDiscards(discardPick, isDealer, includeCrib))
    /\ (Len(discardPick) # DealSize) ~>
           (~discardLoading /\ discardSuggestions = << >>)

\* six cards resolved for the non-dealer without the crib, nothing pending
C26_Witness ==
    /\ Len(discardPick) = DealSize
    /\ ~isDealer
    /\ ~includeCrib
    /\ ~effectDue
    /\ ~discardLoading
    /\ frame = NoRun
    /\ timeout = NoRun
    /\ discardSuggestions # << >>


(***************************************************************************)
(* The scoreboard (app/components/ScoreBoardTab.tsx, the version with the  *)
(* history, undo and redo)                                                 *)
(*                                                                         *)
(* playersRef, historyRef and currentIndexRef are brought level with the   *)
(* state by effects after every render, and the handlers that run ahead of *)
(* a render write them themselves, so at the start of a handler each ref   *)
(* equals its state: the model keeps one variable for both.  A handler's   *)
(* action takes in the save effect its render sets off.  Names, colours,   *)
(* the skin, toasts and timestamps are left out; an entry's id is the      *)
(* number of ids made before it, plus one.  currentIndex counts from 0 as  *)
(* in the source, so the entry it points at is history[currentIndex + 1].  *)
(***************************************************************************)
TOTAL_POINTS == 121

\* the points the user adds, the telling ones first
PointChoices == << 121, 2, 120, 1, 29 >>

MaxPointChoices == 2

Points == { PointChoices[n] : n \in 1..MaxPointChoices }

MaxEntries == 3

MaxMounts == 2

\* the most players a new game is started with
MaxPlayers == 2

Min(a, b) == IF a < b THEN a ELSE b

Max(a, b) == IF a < b THEN b ELSE a

\* prevPlayers.map(player => player.id === playerId ? {...player, score, backPegScore} : player)
WithScores(list, playerId, score, backPegScore) ==
    [ n \in DOMAIN list |->
        IF list[n].id = playerId
        THEN [list[n] EXCEPT !.score = score, !.backPegScore = backPegScore]
        ELSE list[n] ]

RECURSIVE ApplyEntries(_, _, _, _)
\* the loop of buildPlayersFromHistory from i on (i counts from 0)
ApplyEntries(map, entries, i, index) ==
    IF i > index
    THEN map
    ELSE IF i + 1 > Len(entries) \/ ~\E n \in DOMAIN map : map[n].id = entries[i + 1].playerId
    THEN ApplyEntries(map, entries, i + 1, index)
    ELSE ApplyEntries(
             WithScores(map, entries[i + 1].playerId, entries[i + 1].newScore,
                        entries[i + 1].oldScore),
             entries, i + 1, index)

buildPlayersFromHistory(entries, index, basePlayers) ==
    ApplyEntries([ n \in DOMAIN basePlayers |->
                     [basePlayers[n] EXCEPT !.score = 0, !.backPegScore = -1] ],
                 entries, 0, index)

\* array.splice(at, 0, item), at counted from 0
Splice(list, at, item) ==
    [ n \in 1..(Len(list) + 1) |->
        IF n <= at THEN list[n] ELSE IF n = at + 1 THEN item ELSE list[n - 1] ]

\* array.filter((_, idx) => idx !== index), index counted from 0
FilterOut(list, index) ==
    [ n \in 1..(Len(list) - 1) |-> IF n <= index THEN list[n] ELSE list[n + 1] ]

\* JSON.stringify of handleSave's payload, as the document JSON.parse gives back:
\* every value in it is a string, an integer or an array or object of those
Payload(count, list, entries, index, removed) ==
    [ players        |-> list,
      history        |-> entries,
      currentIndex   |-> index,
      playerCount    |-> count,
      removedEntries |-> removed ]

\* the board as the user sees it
Board(list, entries, index) == [players |-> list, history |-> entries, currentIndex |-> index]

\* an accepted add starts the trail
Added == trail' = << "add", Board(players, history, currentIndex),
                     Board(players', history', currentIndex') >>

\* an undo right after the add, a redo right after that undo
Followed(was, is) ==
    trail' = IF trail # << >> /\ trail[1] = was THEN << is, trail[2], trail[3] >> ELSE << >>

\* the save effect after a handler's render: handleSave with the new state
Saved ==
    storage' = << Payload(playerCount', players', history', currentIndex', removedEntries') >>

BoardInit ==
    /\ call = "ScoreBoardTab"
    /\ hand = << >>
    /\ starter = NoCard
    /\ pool = << >>
    /\ pick = 0
    /\ deck = DECK
    /\ calls = 0
    /\ memo = { }
    /\ returned = FALSE
    /\ out = NoResult
    /\ isDealer = TRUE
    /\ includeCrib = TRUE
    /\ PageIdle
    /\ playerCount = 2
    /\ players = createInitialPlayers
    /\ history = << >>
    /\ currentIndex = -1
    /\ lastAction = "null"
    /\ removedEntries = << >>
    /\ storage = << Payload(2, createInitialPlayers, << >>, -1, << >>) >>
    /\ issued = 0
    /\ mounts = 1
    /\ trail = << >>

\* what no handler of the scoreboard touches
offBoard == <<engineVars, isDealer, includeCrib, pageVars>>

Winner(list) == \E n \in DOMAIN list : list[n].score >= TOTAL_POINTS

\* addScore gone wrong: it does not look for a winner first
addScoreAfterWin(playerId, points) ==
    LET target == players[CHOOSE n \in DOMAIN players : players[n].id = playerId]
        newScore == Min(TOTAL_POINTS, target.score + points)
        entry == [ id               |-> issued + 1,
                   playerId         |-> playerId,
                   scoreToAdd       |-> points,
                   oldScore         |-> target.score,
                   oldBackPegScore  |-> target.backPegScore,
                   newScore         |-> newScore ]
    IN  /\ issued < MaxEntries
        /\ lastAction' = "add"
        /\ history' = Append(SubSeq(history, 1, currentIndex + 1), entry)
        /\ currentIndex' = currentIndex + 1
        /\ players' = WithScores(players, playerId, newScore, target.score)
        /\ issued' = issued + 1
        /\ UNCHANGED <<playerCount, removedEntries, mounts>>
        /\ UNCHANGED offBoard
        /\ Saved
        /\ Added

addScore(playerId, points) ==
    IF \/ points <= 0
       \/ Winner(players)
       \/ ~\E n \in DOMAIN players : players[n].id = playerId
    THEN UNCHANGED vars
    ELSE LET target == players[CHOOSE n \in DOMAIN players : players[n].id = playerId]
             rawScore == target.score + points
             otherHasWon ==
                 \E n \in DOMAIN players :
                     players[n].id # playerId /\ players[n].score = TOTAL_POINTS
             newScore ==
                 IF Min(TOTAL_POINTS, rawScore) = TOTAL_POINTS /\ otherHasWon
                 THEN TOTAL_POINTS - 1
                 ELSE Min(TOTAL_POINTS, rawScore)
             entry == [ id               |-> issued + 1,
                        playerId         |-> playerId,
                        scoreToAdd       |-> points,
                        oldScore         |-> target.score,
                        oldBackPegScore  |-> target.backPegScore,
                        newScore         |-> newScore ]
         IN  /\ issued < MaxEntries
             /\ lastAction' = "add"
             /\ history' = Append(SubSeq(history, 1, currentIndex + 1), entry)
             /\ currentIndex' = currentIndex + 1
             /\ players' = WithScores(players, playerId, newScore, target.score)
             /\ issued' = issued + 1
             /\ UNCHANGED <<playerCount, removedEntries, mounts>>
             /\ UNCHANGED offBoard
             /\ Saved
             /\ Added

\* the first branch of undo: the entry removed last is put back
UndoRemove ==
    LET lastRemoved == removedEntries[Len(removedEntries)]
        insertIndex == Min(Max(lastRemoved.index, 0), Len(history))
        nextHistory == Splice(history, insertIndex, lastRemoved.entry)
    IN  /\ removedEntries' = SubSeq(removedEntries, 1, Len(removedEntries) - 1)
        /\ history' = nextHistory
        /\ currentIndex' = lastRemoved.prevIndex
        /\ players' = buildPlayersFromHistory(nextHistory, lastRemoved.prevIndex, players)
        /\ lastAction' = "null"
        /\ UNCHANGED <<playerCount, issued, mounts>>
        /\ UNCHANGED offBoard
        /\ Saved
        /\ trail' = << >>

\* undo gone wrong: the back peg is left where the add put it
undoKeepingBackPeg ==
    IF lastAction = "remove" /\ Len(removedEntries) > 0
    THEN UndoRemove
    ELSE IF currentIndex < 0 \/ currentIndex + 1 > Len(history)
    THEN UNCHANGED vars
    ELSE LET entry == history[currentIndex + 1]
             kept == players[CHOOSE n \in DOMAIN players : players[n].id = entry.playerId]
         IN  /\ players' = WithScores(players, entry.playerId, entry.oldScore,
                                      kept.backPegScore)
             /\ currentIndex' = currentIndex - 1
             /\ UNCHANGED <<playerCount, history, lastAction, removedEntries, issued, mounts>>
             /\ UNCHANGED offBoard
             /\ Saved
             /\ Followed("add", "undo")

undo ==
    IF lastAction = "remove" /\ Len(removedEntries) > 0
    THEN UndoRemove
    ELSE IF currentIndex < 0 \/ currentIndex + 1 > Len(history)
    THEN UNCHANGED vars
    ELSE LET entry == history[currentIndex + 1]
         IN  /\ players' = WithScores(players, entry.playerId, entry.oldScore,
                                      entry.oldBackPegScore)
             /\ currentIndex' = currentIndex - 1
             /\ UNCHANGED <<playerCount, history, lastAction, removedEntries, issued, mounts>>
             /\ UNCHANGED offBoard
             /\ Saved
             /\ Followed("add", "undo")

redo ==
    IF currentIndex + 2 > Len(history) \/ currentIndex + 2 < 1
    THEN UNCHANGED vars
    ELSE LET entry == history[currentIndex + 2]
         IN  /\ players' = WithScores(players, entry.playerId, entry.newScore, entry.oldScore)
             /\ currentIndex' = currentIndex + 1
             /\ UNCHANGED <<playerCount, history, lastAction, removedEntries, issued, mounts>>
             /\ UNCHANGED offBoard
             /\ Saved
             /\ Followed("undo", "redo")

handleRemoveHistory(entryId) ==
    IF ~\E n \in DOMAIN history : history[n].id = entryId
    THEN UNCHANGED vars
    ELSE LET index == (CHOOSE n \in DOMAIN history : history[n].id = entryId) - 1
             nextHistory == FilterOut(history, index)
             nextIndex == IF index <= currentIndex THEN currentIndex - 1 ELSE currentIndex
         IN  /\ removedEntries' =
                    Append(removedEntries,
                           [entry |-> history[index + 1], index |-> index,
                            prevIndex |-> currentIndex])
             /\ lastAction' = "remove"
             /\ history' = nextHistory
             /\ currentIndex' = nextIndex
             /\ players' = buildPlayersFromHistory(nextHistory, nextIndex, players)
             /\ UNCHANGED <<playerCount, issued, mounts>>
             /\ UNCHANGED offBoard
             /\ Saved
             /\ trail' = << >>

\* resetGame: localStorage.removeItem, then the save effect of the render it sets off
resetGame(count) ==
    /\ playerCount' = count
    /\ players' = createPlayersForCount(count)
    /\ history' = << >>
    /\ currentIndex' = -1
    /\ removedEntries' = << >>
    /\ UNCHANGED <<lastAction, issued, mounts>>
    /\ UNCHANGED offBoard
    /\ Saved
    /\ trail' = << >>

\* the players the hydration effect sets: those of the stored count, with the
\* stored name and colour
HydratedPlayers(parsed) ==
    createPlayersForCount(IF parsed.playerCount = 3 THEN 3 ELSE 2)

\* a reload: the component mounts with its useState and useRef values, the
\* hydration effect reads the stored document, and the save effect of the
\* render it sets off writes the hydrated state back
Reload ==
    /\ mounts < MaxMounts
    /\ mounts' = mounts + 1
    /\ lastAction' = "null"
    /\ IF storage = << >>
       THEN /\ playerCount' = 2
            /\ players' = createInitialPlayers
            /\ history' = << >>
            /\ currentIndex' = -1
            /\ removedEntries' = << >>
       ELSE LET parsed == storage[1]
                nextPlayers == HydratedPlayers(parsed)
            IN  /\ playerCount' = (IF parsed.playerCount = 3 THEN 3 ELSE 2)
                /\ players' = nextPlayers
                /\ history' =
                       SelectSeq(parsed.history, LAMBDA entry :
                           \E n \in DOMAIN nextPlayers : nextPlayers[n].id = entry.playerId)
                /\ currentIndex' = parsed.currentIndex
                /\ removedEntries' = parsed.removedEntries
    /\ UNCHANGED issued
    /\ UNCHANGED offBoard
    /\ Saved
    /\ trail' = << >>

BoardNext ==
    \/ \E n \in 1..playerCount, points \in Points : addScore(PlayerIds[n], points)
    \/ undo
    \/ redo
    \/ \E n \in DOMAIN history : handleRemoveHistory(history[n].id)
    \/ \E count \in 2..MaxPlayers : resetGame(count)
    \/ Reload

BoardSpec == BoardInit /\ [][BoardNext]_vars


(***************************************************************************)
(* Claims about the scoreboard                                             *)
(***************************************************************************)
AtFinish == { n \in DOMAIN players : players[n].score = TOTAL_POINTS }

\* C27: whatever is added, undone, redone, removed or reset in a game played
\* without a reload, every score is
\* one of 0..121 and at most one player stands on 121; and while a player
\* stands on 121 an addScore changes neither players nor history nor
\* currentIndex.
C27_ScoresOnTheTrack ==
    /\ [](mounts = 1 =>
            /\ \A n \in DOMAIN players : players[n].score \in 0..TOTAL_POINTS
            /\ Cardinality(AtFinish) <= 1)
    /\ [][\A n \in 1..playerCount, points \in Points :
            (AtFinish # { } /\ addScore(PlayerIds[n], points)) =>
                UNCHANGED <<players, history, currentIndex>>]_vars

\* a player stands on 121 by two adds, the other has pegged, an entry was removed
C27_Witness ==
    /\ mounts = 1
    /\ AtFinish # { }
    /\ \E n \in DOMAIN players : players[n].score = 2
    /\ Len(history) = 2
    /\ removedEntries # << >>

Pegs(list) == [ n \in DOMAIN list |-> <<list[n].id, list[n].score, list[n].backPegScore>> ]

\* C28: an undo right after an accepted add gives back every player's score and
\* back peg and the currentIndex of before the add; a redo right after that
\* undo gives the players, history and currentIndex the add had reached; and
\* currentIndex is always one of -1..history.length-1.
C28_UndoRedoInverse ==
    /\ (trail # << >> /\ trail[1] = "undo") =>
           /\ Pegs(players) = Pegs(trail[2].players)
           /\ currentIndex = trail[2].currentIndex
    /\ (trail # << >> /\ trail[1] = "redo") =>
           Board(players, history, currentIndex) = trail[3]
    /\ currentIndex \in -1..(Len(history) - 1)

\* an add onto a history with an undone entry, then undone and redone
C28_Witness ==
    /\ trail # << >>
    /\ trail[1] = "redo"
    /\ Len(trail[2].history) > trail[2].currentIndex + 1
    /\ trail[2].currentIndex >= 0

\* the entries of the player at an index up to currentIndex (indices from 0)
Applied(playerId) ==
    { i \in 0..currentIndex : i + 1 <= Len(history) /\ history[i + 1].playerId = playerId }

Latest(playerId) == history[(CHOOSE i \in Applied(playerId) : \A j \in Applied(playerId) : j <= i) + 1]

\* C29: as long as the board is only added to, undone, redone and has entries
\* removed (or is reset), each player's score is the newScore of their latest
\* entry at an index up to currentIndex and their back peg that entry's
\* oldScore; with no such entry the score is 0 and the back peg -1.
C29_ScoresFollowHistory ==
    mounts = 1 =>
        \A n \in DOMAIN players :
            IF Applied(players[n].id) = { }
            THEN players[n].score = 0 /\ players[n].backPegScore = -1
            ELSE /\ players[n].score = Latest(players[n].id).newScore
                 /\ players[n].backPegScore = Latest(players[n].id).oldScore

\* C30: a reload gives back what was saved: the scores, the back pegs, the
\* history and the currentIndex after the hydration effect are those of before
\* the reload.
C30_ReloadGivesBackTheBoard ==
    [][mounts' # mounts =>
          /\ Pegs(players') = Pegs(players)
          /\ history' = history
          /\ currentIndex' = currentIndex]_vars

====
